---------------------------- MODULE Spec2Model ----------------------------
(***************************************************************************)
(* Model of the CORE namespace-container control plane: the vnoded         *)
(* supervisor (vnode_server.c, vnode_cmd.c, vnoded_main.c), the command    *)
(* client (vnode_client.c) with its two embedders (vcmd_main.c,            *)
(* vcmdmodule.c) and the message reader (vnode_msg.c).                     *)
(*                                                                         *)
(* Spec      the command protocol between client processes and a running   *)
(*           supervisor.  Commands are submitted with VCMD_IO_NONE; the    *)
(*           descriptor plumbing is exercised under SpecIO.                *)
(* FairSpec  Spec with weak fairness on the event-loop handlers.           *)
(* SpecIO    one vnode_client_cmdreq call and the descriptors it handles,  *)
(*           for every I/O variant.                                        *)
(* SpecSup   the supervisor from main() through vnoded() into the event    *)
(*           loop and out of it, for every command line.                   *)
(***************************************************************************)
EXTENDS Integers, Sequences, FiniteSets, TLC

\* ------------------------------------------------------------- bounds
MaxClients == 2     \* client processes, each connecting once
MaxReqs == 2        \* vnode_client_cmdreq calls, over all clients
NumPids == 2        \* pids the kernel hands out to children
MaxQueue == 1       \* datagrams a socket buffer holds (client to server)
MaxSigs == 1        \* CMDSIGNAL datagrams sent, over all clients
MaxArgvReqs == 1    \* vnode_client_cmdreq calls with an argument list
MaxArgLen == 64     \* bytes of an argument a request is sent with
MaxServeReqs == 2   \* requests the supervisor is given one after another
TicksPerSec == 2    \* steps of the clock in a second of cleanup()'s delay
MaxFdFrames == 2    \* datagrams with descriptors the supervisor is given
MaxFdTlvs == 2      \* TLVs of such a datagram
MaxCallers == 2     \* interpreter threads that call into the module
MaxCmdWaits == 2    \* VCmdWait objects made
MaxThreadCalls == 3 \* calls into the module, over all threads
MaxAsyncCalls == 2  \* calls into the module when all of them use call_asyncfunc
MaxThreadIoErrors == 1  \* calls of the module's vcmd_ioerrorcb

\* ---------------------------------------------------------- constants
SIGTERM == 15
SIGKILL == 9
CleanupDelay == 2                 \* delay.tv_sec of cleanup()
NoFd == 0 - 1
INT32_MAX == 2147483647
INT32_MIN == 0 - INT32_MAX - 1

Clients == 1..MaxClients
Addrs == 1..MaxClients            \* heap chunks for vnode_cliententry_t
PidSet == 2..(NumPids + 1)        \* the supervisor itself is pid 1
CmdIds == 0..(MaxReqs - 1)
ExitStatuses == {0}               \* waitpid status of exit(0)
IoErrorCallbacks == {"vcmd_main", "vcmdmodule"}

VARIABLES
  \* supervisor process
  spc,            \* position of the supervisor, from "main" to "exited"
  fs,             \* files that exist: {[dir, name]}
  clientlisthead, \* server->clientlisthead: <<[fd, addr]>>
  cmdlisthead,    \* server->cmdlisthead: <<[cmdid, pid, data, conn]>>
  sclosed,        \* connections whose server end has been closed
  running,        \* pids of live children
  zombies,        \* exited, not yet reaped children: {[pid, status]}
  \* connections (SOCK_SEQPACKET, one queue per direction)
  c2s, s2c,
  \* client processes
  cstate,         \* "init", "open", "ioerror" (reader stopped), "closed"
  ccmdlist,       \* client->cmdlisthead: <<[cmdid, pid, status, req]>>
  nextid,         \* client->cmdid
  ret,            \* value returned by each vnode_client_cmdreq call
  done,           \* on_done invocations: <<[req, cmdid, pid, status]>>
  ioerrs,         \* invocations of the caller's I/O-error callback
  nsig,           \* CMDSIGNAL datagrams sent so far
  vcmdexit,       \* exit status of a client process that is a vcmd, -1 before
  \* history of what the supervisor did
  ackSent,        \* CMDREQACK sent: {[to, cmdid, pid]}
  statusSent,     \* CMDSTATUS sent: {[to, cmdid, owner, orphan]}
  kills,          \* kill() calls: {[from, owner, pid]}
  \* supervisor start-up
  args,           \* the command line: [newnetns, ctrlchnlname, pidfilename, chdirname]
  cwd,            \* working directory of the supervisor
  vnodeserver,    \* the global of vnoded_main.c: [alloc, ctrlchnlname, pidfilename]
  ppc,            \* the process nsfork() returned the pid to: "none", "forked", "exited"
  exitinfo,       \* how the supervisor ended: [failed, status]
  incleanup,      \* the static flag of cleanup()
  sigmask,        \* signals blocked: those whose sigexit has not returned
  cleanups,       \* cleanup() calls: [entered, body, finished]
  reap,           \* cleanup()'s wait loop: [delay, slept, sent]
  \* one vnode_client_cmdreq call and its descriptors
  iopc,           \* "idle", "start", "opened", "returned", "aborted", "failed"
  cmdio,          \* the vnode_client_cmdio_t
  fdtable,        \* descriptors open in the client process
  bundle,         \* descriptors sent in the CMDREQ's SCM_RIGHTS, <<>> for none
  ioret,          \* what vnode_client_cmdreq returned
  \* the message reader, datagram by datagram
  rx,             \* the vnode_msg_cb under way: its msgbuf and parse position
  spawned,        \* forkexec calls that forked: <<[pid, cmdid, argc, stdio, exec]>>
  argcs,          \* argc of each vnode_client_cmdreq call, by client
  srvfds,         \* descriptors the supervisor received and has not closed
  \* the python module: interpreter threads and the thread of the event loop
  tpc,            \* where each thread is
  gil,            \* the thread that holds the interpreter lock
  mutex,          \* the thread that holds each mutex
  asyncreqlisthead, \* the request list: the callers whose request is queued
  asyncpipe,      \* bytes in the pipe
  asyncreq,       \* each caller's request: [id, done, func, k]
  cmdwait,        \* the VCmdWait objects: [made, cmdid, complete, status, ...]
  thop,           \* the object a caller waits for; the loop thread's request
  thhist          \* requests in the order queued, run and released; counts

srvvars == <<spc, fs, clientlisthead, cmdlisthead, sclosed, running, zombies>>
chanvars == <<c2s, s2c>>
clivars == <<cstate, ccmdlist, nextid, ret, done, ioerrs, nsig>>
histvars == <<ackSent, statusSent, kills>>
clvars == <<incleanup, sigmask, cleanups, reap>>
supvars == <<args, cwd, vnodeserver, ppc, exitinfo, clvars>>
iovars == <<iopc, cmdio, fdtable, bundle, ioret>>
wirevars == <<rx, spawned, argcs, srvfds>>
thrvars == <<tpc, gil, mutex, asyncreqlisthead, asyncpipe, asyncreq, cmdwait, thop, thhist>>
vcmdvars == <<vcmdexit, thrvars>>
ThrOther == <<srvvars, chanvars, clivars, histvars, supvars, iovars, wirevars, vcmdexit>>
vars == <<srvvars, chanvars, clivars, histvars, supvars, iovars, wirevars, vcmdvars>>

\* ------------------------------------------------------------ helpers
RECURSIVE SumLen(_, _)
SumLen(f, S) ==
  IF S = {} THEN 0
  ELSE LET x == CHOOSE y \in S : TRUE IN Len(f[x]) + SumLen(f, S \ {x})

RemoveAt(s, i) == SubSeq(s, 1, i - 1) \o SubSeq(s, i + 1, Len(s))

Msg(t, id, v) == [type |-> t, cmdid |-> id, val |-> v]

\* path names: absolute, or relative to the working directory; "" is no path
Path(a, n) == [abs |-> a, name |-> n]
NoPath == Path(FALSE, "")
StartDir == "/start"              \* where vnoded is started
Dirs == {StartDir, "/conf"}
\* the file a path names for a process whose working directory is d
Resolve(p, d) == [dir |-> IF p.abs THEN "/" ELSE d, name |-> p.name]

\* cleanup() has never been called and no signal handler is running
InitCleanup ==
  /\ incleanup = FALSE
  /\ sigmask = {}
  /\ cleanups = [entered |-> 0, body |-> 0, finished |-> 0]
  /\ reap = [delay |-> CleanupDelay * TicksPerSec, slept |-> 0, sent |-> <<>>]

\* cleanup() is called and returns with no signal arriving meanwhile
CleanupRan ==
  /\ incleanup' = TRUE
  /\ cleanups' = [entered |-> cleanups.entered + 1,
                  body |-> cleanups.body + (IF incleanup THEN 0 ELSE 1),
                  finished |-> cleanups.finished + (IF incleanup THEN 0 ELSE 1)]
  /\ UNCHANGED <<sigmask, reap>>

\* the supervisor has not ended
NoExit == [failed |-> "none", status |-> "none"]
\* it ended with status st; f is the start-up step that failed, or "none"
Exited(f, st) == [failed |-> f, status |-> st]

\* the fds of the connected clients, and the chunks their entries occupy
LiveFds == {clientlisthead[i].fd : i \in 1..Len(clientlisthead)}
UsedAddrs == {clientlisthead[i].addr : i \in 1..Len(clientlisthead)}
AddrOf(c) ==
  clientlisthead[CHOOSE i \in 1..Len(clientlisthead) : clientlisthead[i].fd = c].addr

\* the control socket is bound and listening
Listening == spc \in {"listened", "forked", "redirect", "newserver", "loop"}
\* the client end of connection c is open
ClientFdOpen(c) == cstate[c] \in {"open", "ioerror"}
\* connected by the client, not yet accepted by the supervisor
Pending(c) == ClientFdOpen(c) /\ c \notin LiveFds /\ c \notin sclosed
\* the supervisor's end is gone: closed after accept, or never accepted
ServerEndClosed(c) == c \in sclosed

\* ------------------------------------------------------ client: entries
\* TAILQ_FOREACH(cmd, &client->cmdlisthead) if (cmd->cmdid == id) break;
ClientFind(c, id) ==
  IF \E i \in 1..Len(ccmdlist[c]) : ccmdlist[c][i].cmdid = id
  THEN CHOOSE i \in 1..Len(ccmdlist[c]) :
         /\ ccmdlist[c][i].cmdid = id
         /\ \A j \in 1..(i - 1) : ccmdlist[c][j].cmdid # id
  ELSE 0

\* a vnode_client_cmddone that passes cmd->pid where the cmdid belongs
vnode_client_cmddone_pidfirst(cmd) ==
  [req |-> cmd.req, cmdid |-> cmd.pid, pid |-> cmd.cmdid, status |-> cmd.status]

\* vnode_client_cmddone: the arguments handed to the completion callback
vnode_client_cmddone(cmd) ==
  [req |-> cmd.req, cmdid |-> cmd.cmdid, pid |-> cmd.pid, status |-> cmd.status]

\* a vnode_delclient that completes the first entry only and drops the rest
DelclientDone_firstonly(list) ==
  IF list = <<>> THEN <<>>
  ELSE <<vnode_client_cmddone([list[1] EXCEPT !.status = 0 - 1])>>

\* vnode_delclient's loop: every entry completes with status -1, in order
DelclientDone(list) ==
  [i \in 1..Len(list) |-> vnode_client_cmddone([list[i] EXCEPT !.status = 0 - 1])]

\* ------------------------------------------------------ client: actions
\* vnode_client(): connect to the control channel and start the reader
vnode_client(c) ==
  /\ cstate[c] = "init"
  /\ Listening
  /\ cstate' = [cstate EXCEPT ![c] = "open"]
  /\ UNCHANGED <<vcmdvars, wirevars, iovars, supvars, srvvars, chanvars, ccmdlist, nextid, ret, done, ioerrs, nsig, histvars>>

\* sendmsg on the client's non-blocking socket
ClientSendOk(c) == ~ServerEndClosed(c) /\ Len(c2s[c]) < MaxQueue

\* a client that takes the counter as it is
AllocCmdid_raw(n) == n

\* a client that gives every command the cmdid 0
AllocCmdid_zero(n) == 0

\* the cmdid of a new entry: client->cmdid, set to 0 first when negative
AllocCmdid(n) == IF n < 0 THEN 0 ELSE n

\* client->cmdid++ on an int32_t: the increment the machine makes, which
\* takes INT32_MAX to INT32_MIN
Int32Inc(n) == IF n = INT32_MAX THEN INT32_MIN ELSE n + 1

\* a vnode_client_cmdreq without the TAILQ_REMOVE after a failed send
vnode_client_cmdreq_kept(c) ==
  /\ cstate[c] = "open"
  /\ SumLen(ret, Clients) < MaxReqs
  /\ LET id == AllocCmdid(nextid[c])
         cmd == [cmdid |-> id, pid |-> 0 - 1, status |-> 0 - 1,
                 req |-> Len(ret[c]) + 1]
     IN /\ nextid' = [nextid EXCEPT ![c] = Int32Inc(id)]
        /\ ccmdlist' = [ccmdlist EXCEPT ![c] = Append(@, cmd)]
        /\ IF ClientSendOk(c)
           THEN /\ c2s' = [c2s EXCEPT ![c] = Append(@, Msg("CMDREQ", id, 0))]
                /\ ret' = [ret EXCEPT ![c] = Append(@, id)]
           ELSE /\ ret' = [ret EXCEPT ![c] = Append(@, 0 - 1)]
                /\ UNCHANGED c2s
  /\ UNCHANGED <<vcmdvars, wirevars, iovars, supvars, srvvars, s2c, cstate, done, ioerrs, nsig, histvars>>

\* vnode_client_cmdreq with VCMD_IO_NONE
vnode_client_cmdreq(c) ==
  /\ cstate[c] = "open"
  /\ SumLen(ret, Clients) < MaxReqs
  /\ LET id == AllocCmdid(nextid[c])
         cmd == [cmdid |-> id, pid |-> 0 - 1, status |-> 0 - 1,
                 req |-> Len(ret[c]) + 1]
     IN /\ nextid' = [nextid EXCEPT ![c] = Int32Inc(id)]
        /\ IF ClientSendOk(c)
           THEN /\ c2s' = [c2s EXCEPT ![c] = Append(@, Msg("CMDREQ", id, 0))]
                /\ ccmdlist' = [ccmdlist EXCEPT ![c] = Append(@, cmd)]
                /\ ret' = [ret EXCEPT ![c] = Append(@, id)]
           ELSE /\ ret' = [ret EXCEPT ![c] = Append(@, 0 - 1)]
                /\ UNCHANGED <<c2s, ccmdlist>>
  /\ UNCHANGED <<vcmdvars, wirevars, iovars, supvars, srvvars, s2c, cstate, done, ioerrs, nsig, histvars>>

\* vnode_send_cmdsignal from VCmd_kill or vcmd's sighandler
ClientKill(c, id) ==
  /\ ClientFdOpen(c)
  /\ nsig < MaxSigs
  /\ IF ClientSendOk(c)
     THEN /\ c2s' = [c2s EXCEPT ![c] = Append(@, Msg("CMDSIGNAL", id, SIGTERM))]
          /\ nsig' = nsig + 1
     ELSE UNCHANGED <<c2s, nsig>>
  /\ UNCHANGED <<vcmdvars, wirevars, iovars, supvars, srvvars, s2c, cstate, ccmdlist, nextid, ret, done, ioerrs, histvars>>

\* vnode_delclient: stop the reader, close the fd, complete what is in flight
vnode_delclient(c) ==
  /\ cstate' = [cstate EXCEPT ![c] = "closed"]
  /\ done' = [done EXCEPT ![c] = @ \o DelclientDone(ccmdlist[c])]
  /\ ccmdlist' = [ccmdlist EXCEPT ![c] = <<>>]

\* vcmd_ioerrorcb, the callback of vcmd: vnode_delclient, then exit(1)
vcmd_ioerrorcb(c) ==
  /\ vnode_delclient(c)
  /\ vcmdexit' = [vcmdexit EXCEPT ![c] = 1]

\* the embedder closes the handle: VCmd_dealloc, or vcmd's main after ev_loop
ClientClose(c) ==
  /\ ClientFdOpen(c)
  /\ vnode_delclient(c)
  /\ UNCHANGED <<vcmdvars, wirevars, iovars, supvars, srvvars, chanvars, nextid, ret, ioerrs, nsig, histvars>>

\* vnode_clientrecv_cmdreqack
vnode_clientrecv_cmdreqack(c, m) ==
  LET i == ClientFind(c, m.cmdid) IN
  IF i = 0 THEN UNCHANGED <<ccmdlist, done>>
  ELSE IF m.val = 0 - 1
  THEN /\ ccmdlist' = [ccmdlist EXCEPT ![c] = RemoveAt(@, i)]
       /\ done' = [done EXCEPT ![c] = Append(@,
            vnode_client_cmddone([ccmdlist[c][i] EXCEPT !.pid = m.val,
                                                         !.status = 0 - 1]))]
  ELSE /\ ccmdlist' = [ccmdlist EXCEPT ![c][i].pid = m.val]
       /\ UNCHANGED done

\* vnode_clientrecv_cmdstatus
vnode_clientrecv_cmdstatus(c, m) ==
  LET i == ClientFind(c, m.cmdid) IN
  IF i = 0 THEN UNCHANGED <<ccmdlist, done>>
  ELSE /\ ccmdlist' = [ccmdlist EXCEPT ![c] = RemoveAt(@, i)]
       /\ done' = [done EXCEPT ![c] = Append(@,
            vnode_client_cmddone([ccmdlist[c][i] EXCEPT !.status = m.val]))]

\* vnode_msg_cb on the client: a datagram from the supervisor
ClientRecvMsg(c) ==
  /\ cstate[c] = "open"
  /\ s2c[c] # <<>>
  /\ s2c' = [s2c EXCEPT ![c] = Tail(@)]
  /\ LET m == Head(s2c[c]) IN
       CASE m.type = "CMDREQACK" -> vnode_clientrecv_cmdreqack(c, m)
         [] m.type = "CMDSTATUS" -> vnode_clientrecv_cmdstatus(c, m)
         [] OTHER -> UNCHANGED <<ccmdlist, done>>
  /\ UNCHANGED <<vcmdvars, wirevars, iovars, supvars, srvvars, c2s, cstate, nextid, ret, ioerrs, nsig, histvars>>

\* vnode_msg_cb on the client: recvmsg returns 0 (EOF); the reader stops and
\* server_ioerror calls the embedder's callback
ClientRecvEof(c) ==
  /\ cstate[c] = "open"
  /\ s2c[c] = <<>>
  /\ ServerEndClosed(c)
  /\ ioerrs' = [ioerrs EXCEPT ![c] = @ + 1]
  /\ \E cb \in IoErrorCallbacks :
       IF cb = "vcmd_main"
       THEN vcmd_ioerrorcb(c)
       ELSE /\ cstate' = [cstate EXCEPT ![c] = "ioerror"]  \* _client_connected = 0
            /\ UNCHANGED <<ccmdlist, done, vcmdexit>>
  /\ UNCHANGED <<thrvars, wirevars, iovars, supvars, srvvars, chanvars, nextid, ret, nsig,
                 histvars>>

\* -------------------------------------------------- supervisor: helpers
\* the first index of S in a list of n entries, 0 if there is none
FirstIn(S, n) ==
  IF S = {} THEN 0 ELSE CHOOSE i \in S : \A j \in 1..(i - 1) : j \notin S

\* TAILQ_FOREACH in vnode_child_cb: the first entry with cmd->pid == w->rpid
CmdByPid(pid) ==
  FirstIn({i \in 1..Len(cmdlisthead) : cmdlisthead[i].pid = pid}, Len(cmdlisthead))

\* TAILQ_FOREACH in vnode_recv_cmdsignal: the first entry with the cmdid
\* whose cmd->data is this client's address
CmdOfClient(id, a) ==
  FirstIn({i \in 1..Len(cmdlisthead) :
             cmdlisthead[i].cmdid = id /\ cmdlisthead[i].data = a},
          Len(cmdlisthead))

\* pids fork() may return: never one that is live or not yet reaped
FreePids == PidSet \ (running \cup {z.pid : z \in zombies})

\* what reading client->clientfd through cmd->data yields. The chunk holds a
\* live entry (the owner's, or a later client's that malloc placed there); or
\* it was freed and never reused, and the read is of freed memory.
DerefClientfd(a) ==
  IF a \in UsedAddrs
  THEN {clientlisthead[i].fd : i \in {j \in 1..Len(clientlisthead) :
                                       clientlisthead[j].addr = a}}
  ELSE {NoFd} \cup LiveFds

\* sendmsg on an accepted connection
ServerSendOk(fd) == fd \in LiveFds /\ ClientFdOpen(fd)

\* -------------------------------------------------- supervisor: actions
\* vnode_server_cb / vnode_server_newclient: accept one pending connection
ServerAccept(c) ==
  /\ spc = "loop"
  /\ Pending(c) \/ (cstate[c] = "closed" /\ c \notin LiveFds /\ c \notin sclosed)
  /\ \E a \in Addrs \ UsedAddrs :
       clientlisthead' = Append(clientlisthead, [fd |-> c, addr |-> a])
  /\ UNCHANGED <<vcmdvars, wirevars, iovars, supvars, spc, fs, cmdlisthead, sclosed, running, zombies,
                 chanvars, clivars, histvars>>

\* a vnode_server_delclient that empties the client list
vnode_server_delclient_all(c) ==
  /\ clientlisthead' = <<>>
  /\ sclosed' = sclosed \cup {c}

\* vnode_server_delclient
vnode_server_delclient(c) ==
  /\ clientlisthead' = SelectSeq(clientlisthead, LAMBDA e : e.fd # c)
  /\ sclosed' = sclosed \cup {c}

\* a vnode_process_cmdreq that inserts the entry before it looks at the
\* result of the send
vnode_process_cmdreq_inserted(c, m) ==
  \E pid \in FreePids \cup {0 - 1} :
    /\ running' = IF pid = 0 - 1 THEN running ELSE running \cup {pid}
    /\ cmdlisthead' =
         IF pid = 0 - 1 THEN cmdlisthead
         ELSE Append(cmdlisthead, [cmdid |-> m.cmdid, pid |-> pid,
                                   data |-> AddrOf(c), conn |-> c])
    /\ IF ServerSendOk(c)
       THEN /\ s2c' = [s2c EXCEPT ![c] = Append(@, Msg("CMDREQACK", m.cmdid, pid))]
            /\ ackSent' = ackSent \cup {[to |-> c, cmdid |-> m.cmdid, pid |-> pid]}
       ELSE UNCHANGED <<s2c, ackSent>>
    /\ UNCHANGED kills

\* a vnode_process_cmdreq that inserts the entry whatever forkexec returned
vnode_process_cmdreq_anypid(c, m) ==
  \E pid \in FreePids \cup {0 - 1} :
    /\ running' = IF pid = 0 - 1 THEN running ELSE running \cup {pid}
    /\ IF ServerSendOk(c)
       THEN /\ s2c' = [s2c EXCEPT ![c] = Append(@, Msg("CMDREQACK", m.cmdid, pid))]
            /\ ackSent' = ackSent \cup {[to |-> c, cmdid |-> m.cmdid, pid |-> pid]}
            /\ cmdlisthead' =
                 Append(cmdlisthead, [cmdid |-> m.cmdid, pid |-> pid,
                                      data |-> AddrOf(c), conn |-> c])
       ELSE UNCHANGED <<s2c, ackSent, cmdlisthead>>
    /\ UNCHANGED kills

\* vnode_process_cmdreq: forkexec, ack, insert
vnode_process_cmdreq(c, m) ==
  \E pid \in FreePids \cup {0 - 1} :
    /\ running' = IF pid = 0 - 1 THEN running ELSE running \cup {pid}
    /\ IF ServerSendOk(c)
       THEN /\ s2c' = [s2c EXCEPT ![c] = Append(@, Msg("CMDREQACK", m.cmdid, pid))]
            /\ ackSent' = ackSent \cup {[to |-> c, cmdid |-> m.cmdid, pid |-> pid]}
            /\ cmdlisthead' =
                 IF pid = 0 - 1 THEN cmdlisthead
                 ELSE Append(cmdlisthead, [cmdid |-> m.cmdid, pid |-> pid,
                                           data |-> AddrOf(c), conn |-> c])
       ELSE UNCHANGED <<s2c, ackSent, cmdlisthead>>
    /\ UNCHANGED kills

\* vnode_recv_cmdsignal
vnode_recv_cmdsignal(c, m) ==
  LET i == CmdOfClient(m.cmdid, AddrOf(c)) IN
  /\ kills' = IF i = 0 THEN kills
              ELSE kills \cup {[from |-> c, owner |-> cmdlisthead[i].conn,
                                pid |-> cmdlisthead[i].pid]}
  /\ UNCHANGED <<s2c, ackSent, cmdlisthead, running>>

\* vnode_msg_cb on the supervisor: a datagram from client c
ServerRecvMsg(c) ==
  /\ spc = "loop"
  /\ c \in LiveFds
  /\ c2s[c] # <<>>
  /\ c2s' = [c2s EXCEPT ![c] = Tail(@)]
  /\ LET m == Head(c2s[c]) IN
       CASE m.type = "CMDREQ" -> vnode_process_cmdreq(c, m)
         [] m.type = "CMDSIGNAL" -> vnode_recv_cmdsignal(c, m)
         [] OTHER -> UNCHANGED <<s2c, ackSent, cmdlisthead, running, kills>>
  /\ UNCHANGED <<vcmdvars, wirevars, iovars, supvars, spc, fs, clientlisthead, sclosed, zombies, clivars, statusSent>>

\* vnode_msg_cb on the supervisor: recvmsg returns 0; client_ioerror
ServerRecvEof(c) ==
  /\ spc = "loop"
  /\ c \in LiveFds
  /\ c2s[c] = <<>>
  /\ ~ClientFdOpen(c)
  /\ vnode_server_delclient(c)
  /\ UNCHANGED <<vcmdvars, wirevars, iovars, supvars, spc, fs, cmdlisthead, running, zombies, chanvars, clivars, histvars>>

\* a child terminates, by itself or by a signal
ChildExit(p) ==
  /\ p \in running
  /\ running' = running \ {p}
  /\ \E st \in ExitStatuses \cup {SIGTERM} :
       zombies' = zombies \cup {[pid |-> p, status |-> st]}
  /\ UNCHANGED <<vcmdvars, wirevars, iovars, supvars, spc, fs, clientlisthead, cmdlisthead, sclosed,
                 chanvars, clivars, histvars>>

\* a vnode_child_cb without its TAILQ_REMOVE
ChildCbList_kept(i) == cmdlisthead

\* the list vnode_child_cb leaves behind
ChildCbList(i) == RemoveAt(cmdlisthead, i)

\* vnode_child_cb: libev has reaped z; find it, remove it, send its status
vnode_child_cb(z) ==
  /\ spc = "loop"
  /\ z \in zombies
  /\ zombies' = zombies \ {z}
  /\ LET i == CmdByPid(z.pid) IN
       IF i = 0 THEN UNCHANGED <<cmdlisthead, s2c, statusSent>>
       ELSE LET cmd == cmdlisthead[i] IN
         /\ cmdlisthead' = ChildCbList(i)
         /\ \E fd \in DerefClientfd(cmd.data) :
              IF ServerSendOk(fd)
              THEN /\ s2c' = [s2c EXCEPT ![fd] =
                                Append(@, Msg("CMDSTATUS", cmd.cmdid, z.status))]
                   /\ statusSent' = statusSent \cup
                        {[to |-> fd, cmdid |-> cmd.cmdid, owner |-> cmd.conn,
                          orphan |-> cmd.conn \notin LiveFds]}
              ELSE UNCHANGED <<s2c, statusSent>>
  /\ UNCHANGED <<vcmdvars, wirevars, iovars, supvars, spc, fs, clientlisthead, sclosed, running, c2s, clivars,
                 ackSent, kills>>

\* vnode_delserver: unlink the paths, close every client, free the commands
vnode_delserver ==
  /\ fs' = fs \ ({Resolve(vnodeserver.ctrlchnlname, cwd)} \cup
                  IF vnodeserver.pidfilename.name # ""
                  THEN {Resolve(vnodeserver.pidfilename, cwd)} ELSE {})
  /\ clientlisthead' = <<>>
  /\ cmdlisthead' = <<>>
  /\ sclosed' = Clients

\* cleanup(), the atexit handler; the exit closes every socket
cleanup ==
  IF vnodeserver.alloc THEN vnode_delserver
  ELSE /\ sclosed' = Clients
       /\ UNCHANGED <<fs, clientlisthead, cmdlisthead>>

\* SIGTERM or SIGINT once the handlers are installed (sigexit), or the end
\* of ev_loop: exit(0) runs cleanup()
ServerExit ==
  /\ spc # "exited"
  /\ spc' = "exited"
  /\ cleanup
  /\ exitinfo' = Exited("none", "exit(0)")
  /\ CleanupRan
  /\ UNCHANGED <<vcmdvars, wirevars, iovars, args, cwd, vnodeserver, ppc, running, zombies,
                 chanvars, clivars, histvars>>

\* ------------------------------------------------- supervisor: start-up
\* vnode_listen, first step of vnoded(): socket, unlink, bind, chmod, listen.
\* A failure makes vnoded() return NULL and main() exit(1) through cleanup(),
\* which has no server to delete.
vnode_listen ==
  /\ spc = "main"
  /\ \E r \in {"ok", "socket", "bind", "listen"} :
       /\ fs' = CASE r = "socket" -> fs
                  [] r = "bind" -> fs \ {Resolve(args.ctrlchnlname, cwd)}
                  [] OTHER -> fs \cup {Resolve(args.ctrlchnlname, cwd)}
       /\ spc' = IF r = "ok" THEN "listened" ELSE "exited"
       /\ sclosed' = IF r = "ok" THEN sclosed ELSE Clients
       /\ exitinfo' = IF r = "ok" THEN exitinfo ELSE Exited(r, "exit(1)")
       /\ IF r = "ok" THEN UNCHANGED clvars ELSE CleanupRan
  /\ UNCHANGED <<vcmdvars, wirevars, iovars, args, cwd, vnodeserver, ppc, clientlisthead,
                 cmdlisthead, running, zombies, chanvars, clivars, histvars>>

\* vnoded(): nsfork(0) when namespaces are requested, getpid() otherwise
vnoded_nsfork ==
  /\ spc = "listened"
  /\ IF args.newnetns
     THEN \E pid \in {0 - 1, 0} :
            IF pid = 0 - 1
            THEN /\ fs' = fs \ {Resolve(args.ctrlchnlname, cwd)}
                 /\ spc' = "exited"
                 /\ sclosed' = Clients
                 /\ exitinfo' = Exited("nsfork", "exit(1)")
                 /\ CleanupRan
                 /\ UNCHANGED ppc
            ELSE /\ spc' = "redirect"           \* the child, pid = 0
                 /\ ppc' = "forked"             \* the parent, pid # 0
                 /\ UNCHANGED <<fs, sclosed, exitinfo, clvars>>
     ELSE /\ spc' = "forked"
          /\ UNCHANGED <<fs, sclosed, ppc, exitinfo, clvars>>
  /\ UNCHANGED <<vcmdvars, wirevars, iovars, args, cwd, vnodeserver, clientlisthead, cmdlisthead,
                 running, zombies, chanvars, clivars, histvars>>

\* if (pid): print the pid and write the pid file
WritePidfile ==
  fs' = IF args.pidfilename.name # ""
        THEN fs \cup {Resolve(args.pidfilename, cwd)} ELSE fs

\* ... by the supervisor itself when no namespace was requested
vnoded_pidfile ==
  /\ spc = "forked"
  /\ WritePidfile
  /\ spc' = "redirect"
  /\ UNCHANGED <<vcmdvars, wirevars, iovars, supvars, clientlisthead, cmdlisthead, sclosed, running,
                 zombies, chanvars, clivars, histvars>>

\* ... by the parent of the namespace child, which then _exit(0)s
vnoded_parent ==
  /\ ppc = "forked"
  /\ WritePidfile
  /\ ppc' = "exited"
  /\ UNCHANGED <<vcmdvars, wirevars, iovars, clvars, args, cwd, vnodeserver, exitinfo, spc, clientlisthead, cmdlisthead,
                 sclosed, running, zombies, chanvars, clivars, histvars>>

\* close the inherited files, redirect stdio, chdir(chdirname)
vnoded_chdir ==
  /\ spc = "redirect"
  /\ cwd' = IF args.chdirname # "" THEN args.chdirname ELSE cwd
  /\ spc' = "newserver"
  /\ UNCHANGED <<vcmdvars, wirevars, iovars, clvars, args, vnodeserver, ppc, exitinfo, fs, clientlisthead, cmdlisthead,
                 sclosed, running, zombies, chanvars, clivars, histvars>>

\* what the end of vnoded() does when vnode_newserver returned NULL: with a
\* pid file configured, strncpy writes through the null server pointer; the
\* process is killed by SIGSEGV, or the write lands and vnoded() returns NULL
NullServerOutcomes ==
  IF args.pidfilename.name # "" THEN {"SIGSEGV", "exit(1)"} ELSE {"exit(1)"}

\* vnode_newserver and the copy of pidfilename; main() stores the result in
\* vnodeserver and enters ev_loop.  When malloc fails the socket is closed
\* and its path unlinked, and main() exits with 1.
vnode_newserver ==
  /\ spc = "newserver"
  /\ \/ /\ vnodeserver' = [alloc |-> TRUE, ctrlchnlname |-> args.ctrlchnlname,
                            pidfilename |-> args.pidfilename]
        /\ spc' = "loop"
        /\ UNCHANGED <<fs, sclosed, exitinfo, clvars>>
     \/ /\ fs' = fs \ {Resolve(args.ctrlchnlname, cwd)}
        /\ spc' = "exited"
        /\ sclosed' = Clients
        /\ \E st \in NullServerOutcomes :
             /\ exitinfo' = Exited("newserver", st)
             /\ IF st = "SIGSEGV" THEN UNCHANGED clvars ELSE CleanupRan
        /\ UNCHANGED vnodeserver
  /\ UNCHANGED <<vcmdvars, wirevars, iovars, args, cwd, ppc, clientlisthead, cmdlisthead,
                 running, zombies, chanvars, clivars, histvars>>

\* ------------------------------------ supervisor: shutdown step by step
SIGINT == 2
ExitSignals == {SIGTERM, SIGINT}  \* the signals main() installs sigexit for

\* the positions of cleanup(), in the order it passes them
CleanupSteps == {"unlink_ctrl", "unlink_pid", "close_clients", "free_cmds", "killall"}

\* sigexit(sig): the handler calls exit(0) and so never returns; sig stays
\* blocked.  The first exit calls cleanup().  An exit called while cleanup()
\* is under way is a second call of exit: the C library calls cleanup() again,
\* which returns at its incleanup test, or does not call it again; either way
\* the process then ends where the first cleanup() stood.
sigexit(sig) ==
  /\ spc \in {"loop"} \cup CleanupSteps
  /\ sig \notin sigmask
  /\ sigmask' = sigmask \cup {sig}
  /\ IF spc = "loop"
     THEN /\ incleanup' = TRUE
          /\ cleanups' = [cleanups EXCEPT !.entered = @ + 1, !.body = @ + 1]
          /\ spc' = IF vnodeserver.alloc THEN "unlink_ctrl" ELSE "killall"
          /\ UNCHANGED <<sclosed, exitinfo>>
     ELSE /\ \E again \in BOOLEAN :
               cleanups' = [cleanups EXCEPT !.entered = @ + (IF again THEN 1 ELSE 0)]
          /\ spc' = "exited"
          /\ sclosed' = Clients
          /\ exitinfo' = Exited("none", "exit(0)")
          /\ UNCHANGED incleanup
  /\ UNCHANGED <<vcmdvars, wirevars, iovars, args, cwd, vnodeserver, ppc, fs, clientlisthead,
                 cmdlisthead, running, zombies, chanvars, clivars, histvars, reap>>

\* vnode_delserver: unlink(server->ctrlchnlname)
cleanup_unlink_ctrl ==
  /\ spc = "unlink_ctrl"
  /\ fs' = fs \ {Resolve(vnodeserver.ctrlchnlname, cwd)}
  /\ spc' = "unlink_pid"
  /\ UNCHANGED <<vcmdvars, wirevars, iovars, supvars, clientlisthead, cmdlisthead, sclosed,
                 running, zombies, chanvars, clivars, histvars>>

\* vnode_delserver: unlink(server->pidfilename) if there is one, then stop
\* the watchers and close the listening socket
cleanup_unlink_pid ==
  /\ spc = "unlink_pid"
  /\ fs' = fs \ (IF vnodeserver.pidfilename.name # ""
                 THEN {Resolve(vnodeserver.pidfilename, cwd)} ELSE {})
  /\ spc' = "close_clients"
  /\ UNCHANGED <<vcmdvars, wirevars, iovars, supvars, clientlisthead, cmdlisthead, sclosed,
                 running, zombies, chanvars, clivars, histvars>>

\* vnode_delserver: one turn of the loop over the client list
cleanup_delclient ==
  /\ spc = "close_clients"
  /\ IF clientlisthead # <<>>
     THEN /\ vnode_server_delclient(Head(clientlisthead).fd)
          /\ UNCHANGED spc
     ELSE /\ spc' = "free_cmds"
          /\ UNCHANGED <<clientlisthead, sclosed>>
  /\ UNCHANGED <<vcmdvars, wirevars, iovars, supvars, fs, cmdlisthead, running, zombies,
                 chanvars, clivars, histvars>>

\* vnode_delserver: one turn of the loop over the command list, free(cmd)
cleanup_free_cmds ==
  /\ spc = "free_cmds"
  /\ IF cmdlisthead # <<>>
     THEN /\ cmdlisthead' = Tail(cmdlisthead)
          /\ UNCHANGED spc
     ELSE /\ spc' = "killall"
          /\ UNCHANGED cmdlisthead
  /\ UNCHANGED <<vcmdvars, wirevars, iovars, supvars, fs, clientlisthead, sclosed, running,
                 zombies, chanvars, clivars, histvars>>

\* the rest of cleanup(): as pid 1 of its namespace, kill(-1, SIGTERM), wait
\* for the children and kill(-1, SIGKILL) after the delay; then cleanup()
\* returns and exit() ends the process
cleanup_killall ==
  /\ spc = "killall"
  /\ IF args.newnetns
     THEN running' = {} /\ zombies' = {}
     ELSE UNCHANGED <<running, zombies>>
  /\ cleanups' = [cleanups EXCEPT !.finished = @ + 1]
  /\ spc' = "exited"
  /\ sclosed' = Clients
  /\ exitinfo' = Exited("none", "exit(0)")
  /\ UNCHANGED <<vcmdvars, wirevars, iovars, args, cwd, vnodeserver, ppc, incleanup, sigmask,
                 reap, fs, clientlisthead, cmdlisthead, chanvars, clivars, histvars>>

\* ------------------------------------- supervisor: cleanup()'s wait loop
\* a getpid() that always says 1
getpid_is_1_always == TRUE

\* getpid() == 1: vnoded is the first process of the pid namespace that
\* nsfork made with CLONE_NEWPID
getpid_is_1 == args.newnetns

\* a nanosleep that leaves the delay as it was
nanosleep_rem_full(delay, e) == delay

\* delay = rem after nanosleep was interrupted e ticks into a sleep of delay
nanosleep_rem(delay, e) == delay - e

\* cleanup() returns and exit() ends the process
cleanup_return ==
  /\ spc' = "exited"
  /\ sclosed' = Clients
  /\ exitinfo' = Exited("none", "exit(0)")
  /\ cleanups' = [cleanups EXCEPT !.finished = @ + 1]

\* signal(SIGCHLD, cleanup_sigchld), and as pid 1 kill(-1, SIGTERM)
cleanup_sigterm ==
  /\ spc = "killall"
  /\ IF getpid_is_1
     THEN /\ reap' = [reap EXCEPT !.sent = Append(@, SIGTERM)]
          /\ spc' = "waitpid"
          /\ UNCHANGED <<sclosed, exitinfo, cleanups>>
     ELSE cleanup_return /\ UNCHANGED reap
  /\ UNCHANGED <<vcmdvars, wirevars, iovars, args, cwd, vnodeserver, ppc, incleanup, sigmask,
                 fs, clientlisthead, cmdlisthead, running, zombies, chanvars, clivars,
                 histvars>>

\* waitpid(-1, NULL, WNOHANG): -1 with no child, a child that has ended is
\* reaped and the loop goes on, 0 leads to the sleep
cleanup_waitpid ==
  /\ spc = "waitpid"
  /\ IF running = {} /\ zombies = {}
     THEN cleanup_return /\ UNCHANGED zombies
     ELSE IF zombies # {}
     THEN /\ \E z \in zombies : zombies' = zombies \ {z}
          /\ UNCHANGED <<spc, sclosed, exitinfo, cleanups>>
     ELSE /\ spc' = "nanosleep"
          /\ UNCHANGED <<zombies, sclosed, exitinfo, cleanups>>
  /\ UNCHANGED <<vcmdvars, wirevars, iovars, args, cwd, vnodeserver, ppc, incleanup, sigmask,
                 reap, fs, clientlisthead, cmdlisthead, running, chanvars, clivars,
                 histvars>>

\* nanosleep(&delay, &rem): it sleeps the whole delay, and kill(-1, SIGKILL)
\* follows; or a SIGCHLD interrupts it after e ticks, for a child that ended
\* or one that was stopped or continued, and the loop goes on with delay = rem
cleanup_nanosleep ==
  /\ spc = "nanosleep"
  /\ \/ /\ reap' = [reap EXCEPT !.slept = @ + reap.delay, !.sent = Append(@, SIGKILL)]
        /\ cleanup_return
        /\ UNCHANGED <<running, zombies>>
     \/ /\ \E e \in 1..reap.delay :
             reap' = [reap EXCEPT !.delay = nanosleep_rem(reap.delay, e),
                                  !.slept = @ + (reap.delay - nanosleep_rem(reap.delay, e))]
        /\ spc' = "waitpid"
        /\ \/ \E p \in running, st \in ExitStatuses \cup {SIGTERM} :
                /\ running' = running \ {p}
                /\ zombies' = zombies \cup {[pid |-> p, status |-> st]}
           \/ running # {} /\ UNCHANGED <<running, zombies>>
        /\ UNCHANGED <<sclosed, exitinfo, cleanups>>
  /\ UNCHANGED <<vcmdvars, wirevars, iovars, args, cwd, vnodeserver, ppc, incleanup, sigmask,
                 fs, clientlisthead, cmdlisthead, chanvars, clivars, histvars>>

\* ------------------------------------------------- client: vcmd's main
\* <sys/wait.h> on a waitpid status
WIFEXITED(status) == status % 128 = 0
WEXITSTATUS(status) == (status \div 256) % 256
WIFSIGNALED(status) == status % 128 \in 1..126

\* vcmd_cmddonecb: what it stores in vcmd->cmdstatus
vcmd_cmddonecb(status) ==
  IF WIFEXITED(status) THEN WEXITSTATUS(status)
  ELSE IF WIFSIGNALED(status) THEN 255
  ELSE 255

\* vcmd.cmdstatus: 255 from main(), then what the last vcmd_cmddonecb stored
vcmd_cmdstatus(d) ==
  IF d = <<>> THEN 255 ELSE vcmd_cmddonecb(d[Len(d)].status)

\* vcmd_cmdreqcb: the one vnode_client_cmdreq of a vcmd; on failure
\* vnode_delclient and exit(255)
vcmd_cmdreqcb(c) ==
  /\ cstate[c] = "open"
  /\ ret[c] = <<>>
  /\ vcmdexit[c] = 0 - 1
  /\ SumLen(ret, Clients) < MaxReqs
  /\ IF ClientSendOk(c)
     THEN vnode_client_cmdreq(c)
     ELSE /\ nextid' = [nextid EXCEPT ![c] = Int32Inc(AllocCmdid(@))]
          /\ ret' = [ret EXCEPT ![c] = Append(@, 0 - 1)]
          /\ vnode_delclient(c)
          /\ vcmdexit' = [vcmdexit EXCEPT ![c] = 255]
          /\ UNCHANGED <<thrvars, wirevars, iovars, supvars, srvvars, chanvars, ioerrs, nsig,
                         histvars>>

\* main() after ev_loop, which vcmd_cmddonecb's ev_unloop ended:
\* vnode_delclient, exit(vcmd.cmdstatus)
vcmd_main_exit(c) ==
  /\ cstate[c] = "open"
  /\ done[c] # <<>>
  /\ vcmdexit[c] = 0 - 1
  /\ vnode_delclient(c)
  /\ vcmdexit' = [vcmdexit EXCEPT ![c] = vcmd_cmdstatus(done'[c])]
  /\ UNCHANGED <<thrvars, wirevars, iovars, supvars, srvvars, chanvars, nextid, ret, ioerrs,
                 nsig, histvars>>

\* waitpid statuses of a child: exit(0), exit(1), exit(255), killed by SIGTERM
WaitStatuses == {0, 256, 65280, SIGTERM}

\* a child terminates with any of these
ChildExitWith(p) ==
  /\ p \in running
  /\ running' = running \ {p}
  /\ \E st \in WaitStatuses : zombies' = zombies \cup {[pid |-> p, status |-> st]}
  /\ UNCHANGED <<vcmdvars, wirevars, iovars, supvars, spc, fs, clientlisthead,
                 cmdlisthead, sclosed, chanvars, clivars, histvars>>

\* ------------------------------------------- client: command descriptors
IoTypes == {"VCMD_IO_NONE", "VCMD_IO_FD", "VCMD_IO_PIPE", "VCMD_IO_PTY"}
StdFds == 0..2                    \* STDIN_FILENO .. STDERR_FILENO
FdArgs == (0 - 1)..2              \* descriptors a caller passes for VCMD_IO_FD

\* INIT_STDIO_FD, INIT_STDIO_PIPE, INIT_STDIO_PTY: every member -1
NoCmdio ==
  [iotype |-> "VCMD_IO_NONE",
   stdiofd |-> [infd |-> 0 - 1, outfd |-> 0 - 1, errfd |-> 0 - 1],
   stdiopipe |-> [infd |-> [i \in 0..1 |-> 0 - 1], outfd |-> [i \in 0..1 |-> 0 - 1],
                  errfd |-> [i \in 0..1 |-> 0 - 1]],
   stdiopty |-> [masterfd |-> 0 - 1, slavefd |-> 0 - 1]]

\* the kernel hands out the lowest descriptor that is not open
LowestFree(T) ==
  CHOOSE n \in 0..Cardinality(T) : n \notin T /\ \A m \in 0..(n - 1) : m \in T
RECURSIVE AllocFds(_, _)
AllocFds(T, k) ==
  IF k = 0 THEN <<>>
  ELSE LET n == LowestFree(T) IN <<n>> \o AllocFds(T \cup {n}, k - 1)

\* open_stdio_pipe: three pipe() calls, [0] the read end and [1] the write end
open_stdio_pipe(T) ==
  LET a == AllocFds(T, 6) IN
  [infd |-> [i \in 0..1 |-> a[1 + i]], outfd |-> [i \in 0..1 |-> a[3 + i]],
   errfd |-> [i \in 0..1 |-> a[5 + i]]]

\* open_stdio_pty: posix_openpt, then open(ptsname(masterfd))
open_stdio_pty(T) ==
  LET a == AllocFds(T, 2) IN [masterfd |-> a[1], slavefd |-> a[2]]

\* SET_STDIOFD
SET_STDIOFD(cio, ifd, ofd, efd) ==
  [cio EXCEPT !.iotype = "VCMD_IO_FD",
              !.stdiofd = [infd |-> ifd, outfd |-> ofd, errfd |-> efd]]

\* vnode_open_clientcmdio(t); for VCMD_IO_FD the embedder then sets the
\* descriptors with SET_STDIOFD.  pipe(), posix_openpt() or open() may fail.
vnode_open_clientcmdio(t) ==
  /\ iopc = "start"
  /\ \/ /\ t = "VCMD_IO_NONE"
        /\ cmdio' = [cmdio EXCEPT !.iotype = t]
        /\ iopc' = "opened"
        /\ UNCHANGED fdtable
     \/ /\ t = "VCMD_IO_FD"
        /\ \E ifd \in FdArgs, ofd \in FdArgs, efd \in FdArgs :
             cmdio' = SET_STDIOFD([cmdio EXCEPT !.iotype = t], ifd, ofd, efd)
        /\ iopc' = "opened"
        /\ UNCHANGED fdtable
     \/ /\ t = "VCMD_IO_PIPE"
        /\ cmdio' = [cmdio EXCEPT !.iotype = t, !.stdiopipe = open_stdio_pipe(fdtable)]
        /\ fdtable' = fdtable \cup {AllocFds(fdtable, 6)[i] : i \in 1..6}
        /\ iopc' = "opened"
     \/ /\ t = "VCMD_IO_PTY"
        /\ cmdio' = [cmdio EXCEPT !.iotype = t, !.stdiopty = open_stdio_pty(fdtable)]
        /\ fdtable' = fdtable \cup {AllocFds(fdtable, 2)[i] : i \in 1..2}
        /\ iopc' = "opened"
     \/ /\ t \in {"VCMD_IO_PIPE", "VCMD_IO_PTY"}
        /\ iopc' = "failed"
        /\ UNCHANGED <<cmdio, fdtable>>
  /\ UNCHANGED <<vcmdvars, wirevars, bundle, ioret, supvars, srvvars, chanvars, clivars, histvars>>

\* vnode_setcmdio: the three descriptors of the request
vnode_setcmdio(cio) ==
  CASE cio.iotype = "VCMD_IO_NONE" -> <<0 - 1, 0 - 1, 0 - 1>>
    [] cio.iotype = "VCMD_IO_FD" ->
         <<cio.stdiofd.infd, cio.stdiofd.outfd, cio.stdiofd.errfd>>
    [] cio.iotype = "VCMD_IO_PIPE" ->
         <<cio.stdiopipe.infd[0], cio.stdiopipe.outfd[1], cio.stdiopipe.errfd[1]>>
    [] cio.iotype = "VCMD_IO_PTY" ->
         <<cio.stdiopty.slavefd, cio.stdiopty.slavefd, cio.stdiopty.slavefd>>

\* a vnode_cleanupcmdio that treats the pty like caller-supplied descriptors
vnode_cleanupcmdio_ptykept(cio) ==
  IF cio.iotype = "VCMD_IO_PIPE"
  THEN [cmdio |-> [cio EXCEPT !.stdiopipe.infd[0] = 0 - 1,
                              !.stdiopipe.outfd[1] = 0 - 1,
                              !.stdiopipe.errfd[1] = 0 - 1],
        closed |-> {cio.stdiopipe.infd[0], cio.stdiopipe.outfd[1],
                    cio.stdiopipe.errfd[1]}]
  ELSE [cmdio |-> cio, closed |-> {}]

\* vnode_cleanupcmdio: CLOSE() each child-side descriptor of a pipe or pty;
\* nothing for VCMD_IO_NONE and VCMD_IO_FD
vnode_cleanupcmdio(cio) ==
  CASE cio.iotype = "VCMD_IO_PIPE" ->
         [cmdio |-> [cio EXCEPT !.stdiopipe.infd[0] = 0 - 1,
                                !.stdiopipe.outfd[1] = 0 - 1,
                                !.stdiopipe.errfd[1] = 0 - 1],
          closed |-> {cio.stdiopipe.infd[0], cio.stdiopipe.outfd[1],
                      cio.stdiopipe.errfd[1]}]
    [] cio.iotype = "VCMD_IO_PTY" ->
         [cmdio |-> [cio EXCEPT !.stdiopty.slavefd = 0 - 1],
          closed |-> {cio.stdiopty.slavefd}]
    [] OTHER -> [cmdio |-> cio, closed |-> {}]

\* vnode_client_cmdreq as far as the descriptors go: vnode_setcmdio,
\* vnode_send_cmdreq (vnode_sendmsg attaches the three descriptors when
\* infd >= 0 and asserts the other two), vnode_cleanupcmdio on success
vnode_client_cmdreq_io ==
  /\ iopc = "opened"
  /\ LET fds == vnode_setcmdio(cmdio) IN
     IF fds[1] >= 0 /\ (fds[2] < 0 \/ fds[3] < 0)
     THEN /\ iopc' = "aborted"                    \* assert() fails
          /\ UNCHANGED <<cmdio, fdtable, bundle, ioret>>
     ELSE \/ /\ fds[1] >= 0 => {fds[1], fds[2], fds[3]} \subseteq fdtable
             /\ bundle' = IF fds[1] >= 0 THEN fds ELSE <<>>
             /\ cmdio' = vnode_cleanupcmdio(cmdio).cmdio
             /\ fdtable' = fdtable \ vnode_cleanupcmdio(cmdio).closed
             /\ ioret' = 0
             /\ iopc' = "returned"
          \/ /\ ioret' = 0 - 1                    \* sendmsg failed
             /\ iopc' = "returned"
             /\ UNCHANGED <<cmdio, fdtable, bundle>>
  /\ UNCHANGED <<vcmdvars, wirevars, supvars, srvvars, chanvars, clivars, histvars>>

\* ------------------------------------------------------------ the wire
\* vnode_msgtype_t and vnode_tlvtype_t
VNODE_MSG_NONE == 0
VNODE_MSG_CMDREQ == 1
VNODE_MSG_CMDREQACK == 2
VNODE_MSG_CMDSTATUS == 3
VNODE_MSG_CMDSIGNAL == 4
VNODE_MSG_MAX == 5
VNODE_TLV_STDIN == 2
VNODE_TLV_CMDID == 1
VNODE_TLV_CMDARG == 5
VNODE_TLV_CMDPID == 6
VNODE_TLV_CMDSTATUS == 7
VNODE_TLV_SIGNUM == 8
VNODE_TLV_MAX == 9
VNODE_ARGMAX == 1024
VNODE_MSGSIZMAX == 65535
MsgHdrLen == 8                    \* sizeof(vnode_msghdr_t)
TlvHdrLen == 8                    \* sizeof(vnode_tlv_t)
Int32Len == 4                     \* sizeof(int32_t)
ExecFailedStatus == 256           \* waitpid status of _exit(1)

\* the name the handlers of the protocol know a message type by
MsgName(t) ==
  CASE t = VNODE_MSG_CMDREQ -> "CMDREQ"
    [] t = VNODE_MSG_CMDREQACK -> "CMDREQACK"
    [] t = VNODE_MSG_CMDSTATUS -> "CMDSTATUS"
    [] t = VNODE_MSG_CMDSIGNAL -> "CMDSIGNAL"

\* a memcpy of the int32_t that stores the most significant byte first
Int32Bytes_msbfirst(v) ==
  LET u == IF v >= 0 THEN v ELSE 0 - (v + 1)
      b == <<u \div 16777216, (u \div 65536) % 256, (u \div 256) % 256, u % 256>>
  IN [k \in 1..Int32Len |-> IF v >= 0 THEN b[k] ELSE 255 - b[k]]

\* memcpy(tlv->val, &v, sizeof(v)) of an int32_t: its four bytes in host
\* order, two's complement, least significant first
Int32Bytes(v) ==
  LET u == IF v >= 0 THEN v ELSE 0 - (v + 1)
      b == <<u % 256, (u \div 256) % 256, (u \div 65536) % 256, u \div 16777216>>
  IN [k \in 1..Int32Len |-> IF v >= 0 THEN b[k] ELSE 255 - b[k]]

\* *(int32_t *)tlv->val
BytesInt32(b) ==
  IF b[4] >= 128
  THEN 0 - ((255 - b[1]) + 256 * (255 - b[2]) + 65536 * (255 - b[3])
            + 16777216 * (255 - b[4])) - 1
  ELSE b[1] + 256 * b[2] + 65536 * b[3] + 16777216 * b[4]

\* the C string a char pointer to these bytes denotes: up to the first NUL
CStr(b) ==
  SubSeq(b, 1, (CHOOSE i \in 1..Len(b) :
                  b[i] = 0 /\ \A j \in 1..(i - 1) : b[j] # 0) - 1)

\* tlv_int32
tlv_int32(tlv) ==
  IF tlv.vallen # Int32Len THEN [rc |-> 0 - 1, var |-> 0]
  ELSE [rc |-> 0, var |-> BytesInt32(tlv.val)]

\* a tlv_string that takes the value as it is
tlv_string_unchecked(tlv) ==
  [rc |-> 0, var |-> IF 0 \in {tlv.val[i] : i \in 1..Len(tlv.val)}
                     THEN CStr(tlv.val) ELSE tlv.val]

\* tlv_string
tlv_string(tlv) ==
  IF tlv.val[tlv.vallen] # 0 THEN [rc |-> 0 - 1, var |-> <<>>]
  ELSE [rc |-> 0, var |-> CStr(tlv.val)]

\* vnode_addtlv: the TLV written at the offset
vnode_addtlv(type, vallen, valp) ==
  [type |-> type, vallen |-> vallen, val |-> SubSeq(valp, 1, vallen)]

\* the offset after the TLVs lo..hi
RECURSIVE TlvsLen(_, _, _)
TlvsLen(tlvs, lo, hi) ==
  IF lo > hi THEN 0
  ELSE IF lo = hi THEN TlvHdrLen + tlvs[lo].vallen
  ELSE LET mid == (lo + hi) \div 2
       IN TlvsLen(tlvs, lo, mid) + TlvsLen(tlvs, mid + 1, hi)

\* no vnode_msg_cb under way
NoRx == [pc |-> "idle"]

\* no vnode_send_* call made these bytes
NoCall == [call |-> "none"]

\* vnode_sendmsg: one datagram of vnode_msglen bytes, with the three
\* descriptors as SCM_RIGHTS when infd >= 0.  sent records the call.
vnode_sendmsg(type, tlvs, fds, call) ==
  [len |-> MsgHdrLen + TlvsLen(tlvs, 1, Len(tlvs)),
   type |-> type, datalen |-> TlvsLen(tlvs, 1, Len(tlvs)), tlvs |-> tlvs,
   fds |-> IF fds[1] >= 0 THEN fds ELSE <<>>, sent |-> call]

\* vnode_send_cmdreq
vnode_send_cmdreq(cmdid, argv, fds) ==
  vnode_sendmsg(VNODE_MSG_CMDREQ,
    <<vnode_addtlv(VNODE_TLV_CMDID, Int32Len, Int32Bytes(cmdid))>> \o
    [i \in 1..Len(argv) |->
       vnode_addtlv(VNODE_TLV_CMDARG, Len(argv[i]) + 1, argv[i] \o <<0>>)],
    fds, [call |-> "vnode_send_cmdreq", cmdid |-> cmdid, argv |-> argv])

\* vnode_send_cmdreqack
vnode_send_cmdreqack(cmdid, pid) ==
  vnode_sendmsg(VNODE_MSG_CMDREQACK,
    <<vnode_addtlv(VNODE_TLV_CMDID, Int32Len, Int32Bytes(cmdid)),
      vnode_addtlv(VNODE_TLV_CMDPID, Int32Len, Int32Bytes(pid))>>,
    <<0 - 1, 0 - 1, 0 - 1>>,
    [call |-> "vnode_send_cmdreqack", cmdid |-> cmdid, val |-> pid])

\* vnode_send_cmdstatus
vnode_send_cmdstatus(cmdid, status) ==
  vnode_sendmsg(VNODE_MSG_CMDSTATUS,
    <<vnode_addtlv(VNODE_TLV_CMDID, Int32Len, Int32Bytes(cmdid)),
      vnode_addtlv(VNODE_TLV_CMDSTATUS, Int32Len, Int32Bytes(status))>>,
    <<0 - 1, 0 - 1, 0 - 1>>,
    [call |-> "vnode_send_cmdstatus", cmdid |-> cmdid, val |-> status])

\* vnode_send_cmdsignal
vnode_send_cmdsignal(cmdid, signum) ==
  vnode_sendmsg(VNODE_MSG_CMDSIGNAL,
    <<vnode_addtlv(VNODE_TLV_CMDID, Int32Len, Int32Bytes(cmdid)),
      vnode_addtlv(VNODE_TLV_SIGNUM, Int32Len, Int32Bytes(signum))>>,
    <<0 - 1, 0 - 1, 0 - 1>>,
    [call |-> "vnode_send_cmdsignal", cmdid |-> cmdid, val |-> signum])

\* what is read from the socket for a queued element: the datagram itself, or
\* the one the vnode_send_* call of a protocol handler wrote
ToWire(x) ==
  IF "len" \in DOMAIN x THEN x
  ELSE CASE x.type = "CMDREQACK" -> vnode_send_cmdreqack(x.cmdid, x.val)
         [] x.type = "CMDSTATUS" -> vnode_send_cmdstatus(x.cmdid, x.val)
         [] x.type = "CMDSIGNAL" -> vnode_send_cmdsignal(x.cmdid, x.val)

\* a vnode_recvmsg without the comparison of hdr.datalen with the length
vnode_recvmsg_nolen(d) ==
  LET recvlen == IF d.len > VNODE_MSGSIZMAX THEN VNODE_MSGSIZMAX ELSE d.len IN
  IF recvlen = 0 THEN 0 - 1
  ELSE IF recvlen < MsgHdrLen THEN 0
  ELSE IF d.type = VNODE_MSG_NONE \/ d.type >= VNODE_MSG_MAX THEN 0
  ELSE recvlen

\* vnode_recvmsg on a readable socket: the datagram is cut to the buffer;
\* zero bytes read as end of file
vnode_recvmsg(d) ==
  LET recvlen == IF d.len > VNODE_MSGSIZMAX THEN VNODE_MSGSIZMAX ELSE d.len IN
  IF recvlen = 0 THEN 0 - 1
  ELSE IF recvlen < MsgHdrLen THEN 0
  ELSE IF d.type = VNODE_MSG_NONE \/ d.type >= VNODE_MSG_MAX THEN 0
  ELSE IF recvlen - MsgHdrLen # d.datalen THEN 0
  ELSE recvlen

\* msgio->msghandler of the supervisor (vnode_server_newclient) and of the
\* client (vnode_client)
msghandler(side, type) ==
  IF side = "server" THEN type \in {VNODE_MSG_CMDREQ, VNODE_MSG_CMDSIGNAL}
  ELSE type \in {VNODE_MSG_CMDREQACK, VNODE_MSG_CMDSTATUS}

\* the tlvhandler tables of the four handlers: the member a TLV type is
\* stored to, "NULL" where the table has no entry
tlvhandler(type, tlvtype) ==
  CASE tlvtype = VNODE_TLV_CMDID -> "cmdid"
    [] type = VNODE_MSG_CMDREQ /\ tlvtype = VNODE_TLV_CMDARG -> "cmdarg"
    [] type = VNODE_MSG_CMDREQACK /\ tlvtype = VNODE_TLV_CMDPID -> "val"
    [] type = VNODE_MSG_CMDSTATUS /\ tlvtype = VNODE_TLV_CMDSTATUS -> "val"
    [] type = VNODE_MSG_CMDSIGNAL /\ tlvtype = VNODE_TLV_SIGNUM -> "val"
    [] OTHER -> "NULL"

\* CMDREQ_INIT, CMDREQACK_INIT, CMDSTATUS_INIT, CMDSIGNAL_INIT
MsgInit(type) ==
  [cmdid |-> 0, cmdarg |-> <<>>,
   val |-> IF type \in {VNODE_MSG_CMDREQACK, VNODE_MSG_CMDSTATUS} THEN 0 - 1 ELSE 0]

\* tlv_cmdreq_cmdarg: the first free slot of cmdarg[VNODE_ARGMAX]
tlv_cmdreq_cmdarg(tlv, data) ==
  IF Len(data.cmdarg) = VNODE_ARGMAX THEN [rc |-> 0 - 1, data |-> data]
  ELSE [rc |-> tlv_string(tlv).rc,
        data |-> IF tlv_string(tlv).rc = 0
                 THEN [data EXCEPT !.cmdarg = Append(@, tlv_string(tlv).var)]
                 ELSE data]

\* tlvhandlefn(tlv, data) for the int32 members
tlv_member_int32(member, tlv, data) ==
  [rc |-> tlv_int32(tlv).rc,
   data |-> IF tlv_int32(tlv).rc # 0 THEN data
            ELSE IF member = "cmdid" THEN [data EXCEPT !.cmdid = tlv_int32(tlv).var]
            ELSE [data EXCEPT !.val = tlv_int32(tlv).var]]

\* a vnode_parsemsg whose result starts as success
ParseStart_tmp0(side, c, d, fds) ==
  [pc |-> "parse", side |-> side, c |-> c, msg |-> d, fds |-> fds,
   offset |-> 0, i |-> 1, tmp |-> 0, brk |-> FALSE, data |-> MsgInit(d.type)]

\* the handler is entered and vnode_parsemsg starts: offset = 0, tmp = -1
ParseStart(side, c, d, fds) ==
  [pc |-> "parse", side |-> side, c |-> c, msg |-> d, fds |-> fds,
   offset |-> 0, i |-> 1, tmp |-> 0 - 1, brk |-> FALSE, data |-> MsgInit(d.type)]

\* vnode_parsemsg has left its loop
LoopEnded == rx.pc = "parse" /\ (rx.brk \/ rx.offset >= rx.msg.datalen)

\* descriptors open in the supervisor: stdio, the control socket, the clients
SupFds == StdFds \cup {3} \cup {3 + c : c \in LiveFds}

\* msgbuf.infd, outfd, errfd after recvmsg: -1, or where the kernel installed
\* the SCM_RIGHTS descriptors
RecvFds(d) ==
  IF d.fds = <<>> THEN <<0 - 1, 0 - 1, 0 - 1>> ELSE AllocFds(SupFds \cup srvfds, 3)

\* those of them that are descriptors
OpenFds(fds) == {fds[k] : k \in {j \in 1..3 : fds[j] >= 0}}

\* the process dies of a wild call (SIGSEGV): the kernel closes its sockets
Crash(side, c) ==
  /\ rx' = NoRx
  /\ IF side = "server"
     THEN /\ spc' = "crashed"
          /\ sclosed' = Clients
          /\ srvfds' = {}
          /\ UNCHANGED cstate
     ELSE /\ cstate' = [cstate EXCEPT ![c] = "crashed"]
          /\ UNCHANGED <<spc, sclosed, srvfds>>

\* vnode_msg_cb on the supervisor: vnode_recvmsg, then the handler of the type
vnode_msg_cb_server(c) ==
  /\ rx = NoRx
  /\ spc = "loop"
  /\ c \in LiveFds
  /\ c2s[c] # <<>>
  /\ c2s' = [c2s EXCEPT ![c] = Tail(@)]
  /\ LET d == ToWire(Head(c2s[c])) IN
       IF vnode_recvmsg(d) < 0
       THEN /\ vnode_server_delclient(c)             \* client_ioerror
            /\ UNCHANGED <<rx, srvfds>>
       ELSE /\ srvfds' = srvfds \cup OpenFds(RecvFds(d))
            /\ IF vnode_recvmsg(d) = 0 \/ ~msghandler("server", d.type)
               THEN UNCHANGED <<clientlisthead, sclosed, rx>>
               ELSE /\ rx' = ParseStart("server", c, d, RecvFds(d))
                    /\ UNCHANGED <<clientlisthead, sclosed>>
  /\ UNCHANGED <<vcmdvars, iovars, supvars, spc, fs, cmdlisthead, running, zombies, s2c,
                 clivars, histvars, spawned, argcs>>

\* vnode_msg_cb on the client
vnode_msg_cb_client(c) ==
  /\ rx = NoRx
  /\ cstate[c] = "open"
  /\ s2c[c] # <<>>
  /\ s2c' = [s2c EXCEPT ![c] = Tail(@)]
  /\ LET d == ToWire(Head(s2c[c])) IN
       IF vnode_recvmsg(d) < 0
       THEN /\ ioerrs' = [ioerrs EXCEPT ![c] = @ + 1]    \* server_ioerror
            /\ \E cb \in IoErrorCallbacks :
                 IF cb = "vcmd_main"
                 THEN vcmd_ioerrorcb(c)
                 ELSE /\ cstate' = [cstate EXCEPT ![c] = "ioerror"]
                      /\ UNCHANGED <<ccmdlist, done, vcmdexit>>
            /\ UNCHANGED rx
       ELSE IF vnode_recvmsg(d) = 0 \/ ~msghandler("client", d.type)
       THEN UNCHANGED <<ioerrs, cstate, ccmdlist, done, rx, vcmdexit>>
       ELSE /\ rx' = ParseStart("client", c, d, RecvFds(d))
            /\ UNCHANGED <<ioerrs, cstate, ccmdlist, done, vcmdexit>>
  /\ UNCHANGED <<thrvars, iovars, supvars, srvvars, c2s, nextid, ret, nsig, histvars,
                 spawned, argcs, srvfds>>

\* vnode_parsemsg: one turn of its loop.  The TLV is skipped when its length
\* is 0 or passes datalen, or when the table has no handler; the table is
\* indexed with tlv->type unchecked, so for a type past its end the word read
\* is whatever lies there: NULL, or an address that is then called.
vnode_parsemsg ==
  /\ rx.pc = "parse" /\ ~rx.brk /\ rx.offset < rx.msg.datalen
  /\ LET tlv == rx.msg.tlvs[rx.i]
         offset == rx.offset + TlvHdrLen + tlv.vallen
         skip == [rx EXCEPT !.offset = offset, !.i = @ + 1]
         member == tlvhandler(rx.msg.type, tlv.type)
         r == IF member = "cmdarg" THEN tlv_cmdreq_cmdarg(tlv, rx.data)
              ELSE tlv_member_int32(member, tlv, rx.data)
     IN IF tlv.vallen = 0 \/ offset > rx.msg.datalen
        THEN rx' = skip /\ UNCHANGED <<spc, sclosed, cstate, srvfds>>
        ELSE IF tlv.type >= VNODE_TLV_MAX
        THEN \/ rx' = skip /\ UNCHANGED <<spc, sclosed, cstate, srvfds>>
             \/ Crash(rx.side, rx.c)
        ELSE IF member = "NULL"
        THEN rx' = skip /\ UNCHANGED <<spc, sclosed, cstate, srvfds>>
        ELSE /\ rx' = [skip EXCEPT !.tmp = r.rc, !.data = r.data, !.brk = r.rc # 0]
             /\ UNCHANGED <<spc, sclosed, cstate, srvfds>>
  /\ UNCHANGED <<vcmdvars, iovars, supvars, fs, clientlisthead, cmdlisthead, running, zombies,
                 chanvars, ccmdlist, nextid, ret, done, ioerrs, nsig, histvars,
                 spawned, argcs>>

\* the programs execvp finds
Str_a == <<97>>
Str_b == <<98>>
Programs == {Str_a}

\* execvp(cmdarg[0], cmdarg) in the child.  cmdarg[0] is NULL for an empty
\* list; a full array has no terminating NULL and execvp reads past it.
ExecOutcomes(cmdarg) ==
  IF cmdarg = <<>> THEN {"failed"}
  ELSE IF Len(cmdarg) = VNODE_ARGMAX THEN {"ok", "failed"}
  ELSE IF cmdarg[1] \in Programs THEN {"ok"} ELSE {"failed"}

\* forkexec, the child: stdin, stdout and stderr are inherited from the
\* supervisor; DUP2 replaces each whose request descriptor is >= 0
forkexec_stdio(fds, sentfds) ==
  [k \in StdFds |-> IF fds[k + 1] >= 0
                    THEN [of |-> "client", fd |-> sentfds[k + 1]]
                    ELSE [of |-> "supervisor", fd |-> k]]

\* a forkexec whose parent keeps the descriptors when fork() failed
forkexec_close_forked(pid, fds) ==
  IF pid = 0 - 1 THEN {} ELSE OpenFds(fds)

\* forkexec, the parent and the failed fork alike: CLOSE() of each of
\* cmdio.infd, outfd, errfd that is >= 0
forkexec_close(pid, fds) == OpenFds(fds)

\* the handler after vnode_parsemsg: it returns when the parse failed, and
\* else does its work (vnode_recv_cmdreq copies the descriptors and calls
\* vnode_process_cmdreq)
msghandlefn ==
  /\ LoopEnded
  /\ rx' = NoRx
  /\ LET m == Msg(MsgName(rx.msg.type), rx.data.cmdid, rx.data.val) IN
       IF rx.tmp # 0
       THEN UNCHANGED <<running, s2c, ackSent, cmdlisthead, kills, ccmdlist, done,
                        spawned, srvfds>>
       ELSE CASE rx.msg.type = VNODE_MSG_CMDREQ ->
                   /\ vnode_process_cmdreq(rx.c, m)
                   /\ srvfds' = srvfds \
                        forkexec_close(IF running' = running THEN 0 - 1
                                       ELSE CHOOSE p \in running' \ running : TRUE,
                                       rx.fds)
                   /\ \E e \in ExecOutcomes(rx.data.cmdarg) :
                        spawned' =
                          IF running' = running THEN spawned
                          ELSE Append(spawned,
                                 [pid |-> CHOOSE p \in running' \ running : TRUE,
                                  cmdid |-> rx.data.cmdid,
                                  argc |-> Len(rx.data.cmdarg),
                                  stdio |-> forkexec_stdio(rx.fds, rx.msg.fds),
                                  exec |-> e])
                   /\ UNCHANGED <<ccmdlist, done>>
              [] rx.msg.type = VNODE_MSG_CMDSIGNAL ->
                   /\ vnode_recv_cmdsignal(rx.c, m)
                   /\ UNCHANGED <<ccmdlist, done, spawned, srvfds>>
              [] rx.msg.type = VNODE_MSG_CMDREQACK ->
                   /\ vnode_clientrecv_cmdreqack(rx.c, m)
                   /\ UNCHANGED <<running, s2c, ackSent, cmdlisthead, kills, spawned,
                                  srvfds>>
              [] rx.msg.type = VNODE_MSG_CMDSTATUS ->
                   /\ vnode_clientrecv_cmdstatus(rx.c, m)
                   /\ UNCHANGED <<running, s2c, ackSent, cmdlisthead, kills, spawned,
                                  srvfds>>
  /\ UNCHANGED <<vcmdvars, iovars, supvars, spc, fs, clientlisthead, sclosed, zombies, c2s,
                 cstate, nextid, ret, ioerrs, nsig, statusSent, argcs>>

\* the last forkexec that returned pid p
SpawnOf(p) ==
  spawned[CHOOSE i \in 1..Len(spawned) :
            spawned[i].pid = p /\ \A j \in (i + 1)..Len(spawned) : spawned[j].pid # p]

\* the child's execvp failed: WARN and _exit(1)
forkexec_exit(p) ==
  /\ p \in running
  /\ SpawnOf(p).exec = "failed"
  /\ running' = running \ {p}
  /\ zombies' = zombies \cup {[pid |-> p, status |-> ExecFailedStatus]}
  /\ UNCHANGED <<vcmdvars, wirevars, iovars, supvars, spc, fs, clientlisthead, cmdlisthead,
                 sclosed, chanvars, clivars, histvars>>

\* vnode_client_cmdreq with its argument list and the descriptors of the
\* VCMD_IO_NONE or VCMD_IO_FD variant
vnode_client_cmdreq_argv(c, argv, fds) ==
  /\ cstate[c] = "open"
  /\ argcs' = [argcs EXCEPT ![c] = Append(@, Len(argv))]
  /\ IF Len(argv) >= VNODE_ARGMAX
     THEN /\ ret' = [ret EXCEPT ![c] = Append(@, 0 - 1)]
          /\ UNCHANGED <<nextid, c2s, ccmdlist>>
     ELSE LET id == AllocCmdid(nextid[c])
              cmd == [cmdid |-> id, pid |-> 0 - 1, status |-> 0 - 1,
                      req |-> Len(ret[c]) + 1]
          IN /\ nextid' = [nextid EXCEPT ![c] = Int32Inc(id)]
             /\ IF ClientSendOk(c)
                THEN /\ c2s' = [c2s EXCEPT ![c] =
                                  Append(@, vnode_send_cmdreq(id, argv, fds))]
                     /\ ccmdlist' = [ccmdlist EXCEPT ![c] = Append(@, cmd)]
                     /\ ret' = [ret EXCEPT ![c] = Append(@, id)]
                ELSE /\ ret' = [ret EXCEPT ![c] = Append(@, 0 - 1)]
                     /\ UNCHANGED <<c2s, ccmdlist>>
  /\ UNCHANGED <<vcmdvars, iovars, supvars, srvvars, s2c, cstate, done, ioerrs, nsig, histvars,
                 rx, spawned, srvfds>>

\* ------------------------------ python module: the threads and their locks
LoopThread == 0                   \* the thread start_evloop runs in
Callers == 1..MaxCallers          \* threads of the interpreter
Threads == {LoopThread} \cup Callers
NoThread == 0 - 1
WaitObjs == 1..MaxCmdWaits        \* the VCmdWait objects, in the order made

asyncreqlist_mutex == <<"asyncreqlist_mutex", 0>>
asyncpipe_writemutex == <<"asyncpipe_writemutex", 0>>
asyncreq_mutex(t) == <<"asyncreq.mutex", t>>
cmdwait_mutex(k) == <<"cmdwait._mutex", k>>
Mutexes ==
  {asyncreqlist_mutex, asyncpipe_writemutex} \cup
  {asyncreq_mutex(t) : t \in Callers} \cup {cmdwait_mutex(k) : k \in WaitObjs}

InitThreads ==
  /\ tpc = [t \in Threads |-> IF t = LoopThread THEN "ev_loop" ELSE "python"]
  /\ gil = NoThread
  /\ mutex = [m \in Mutexes |-> NoThread]
  /\ asyncreqlisthead = <<>>
  /\ asyncpipe = 0
  /\ asyncreq = [t \in Callers |-> [id |-> 0, done |-> FALSE, func |-> "none", k |-> 0]]
  /\ cmdwait = [k \in WaitObjs |->
                  [made |-> FALSE, cmdid |-> 0 - 1, complete |-> FALSE,
                   status |-> 0 - 1, returned |-> FALSE, cb |-> FALSE]]
  /\ thop = [t \in Threads |-> 0]
  /\ thhist = [calls |-> 0, enq |-> <<>>, run |-> <<>>, released |-> <<>>,
               waited |-> <<>>, ioerrs |-> 0, kills |-> 0]

\* pthread_mutex_lock returns when the mutex is free; pthread_mutex_unlock
pthread_mutex_lock(t, m) == mutex[m] = NoThread /\ mutex' = [mutex EXCEPT ![m] = t]
pthread_mutex_unlock(m) == mutex' = [mutex EXCEPT ![m] = NoThread]

\* the interpreter lock: taken by a thread that enters the module from
\* Python, by Py_END_ALLOW_THREADS and by PyGILState_Ensure; given up by a
\* thread that returns to Python and another is let run, by
\* Py_BEGIN_ALLOW_THREADS and by PyGILState_Release
PyEval_AcquireLock(t) == gil = NoThread /\ gil' = t
PyEval_ReleaseLock(t) == gil = t /\ gil' = NoThread

Goto(t, pc) == tpc' = [tpc EXCEPT ![t] = pc]

\* a queue that hands out its last request
asyncreq_dequeue_last(q) == [req |-> q[Len(q)], rest |-> SubSeq(q, 1, Len(q) - 1)]

\* TAILQ_FIRST and TAILQ_REMOVE in vcmd_asyncreq_cb
asyncreq_dequeue(q) == [req |-> Head(q), rest |-> Tail(q)]

\* while (!asyncreq.done) in call_asyncfunc
asyncreq_done(r) == r.done

\* call_asyncfunc, entered with the interpreter lock held: the request, which
\* lives in the caller's frame, is queued, the pipe is written to, and the
\* caller waits for done without the interpreter lock
call_asyncfunc(t) ==
  /\ \/ /\ tpc[t] = "call_locklist"
        /\ pthread_mutex_lock(t, asyncreqlist_mutex)
        /\ Goto(t, "call_insert")
        /\ UNCHANGED <<gil, asyncreqlisthead, asyncpipe, thhist>>
     \/ /\ tpc[t] = "call_insert"
        /\ asyncreqlisthead' = Append(asyncreqlisthead, t)
        /\ thhist' = [thhist EXCEPT !.enq = Append(@, asyncreq[t].id)]
        /\ pthread_mutex_unlock(asyncreqlist_mutex)
        /\ Goto(t, "call_lockpipe")
        /\ UNCHANGED <<gil, asyncpipe>>
     \/ /\ tpc[t] = "call_lockpipe"
        /\ pthread_mutex_lock(t, asyncpipe_writemutex)
        /\ Goto(t, "call_write")
        /\ UNCHANGED <<gil, asyncreqlisthead, asyncpipe, thhist>>
     \/ /\ tpc[t] = "call_write"
        /\ asyncpipe' = asyncpipe + 1
        /\ pthread_mutex_unlock(asyncpipe_writemutex)
        /\ Goto(t, "call_lockreq")
        /\ UNCHANGED <<gil, asyncreqlisthead, thhist>>
     \/ /\ tpc[t] = "call_lockreq"
        /\ pthread_mutex_lock(t, asyncreq_mutex(t))
        /\ Goto(t, "call_allow")
        /\ UNCHANGED <<gil, asyncreqlisthead, asyncpipe, thhist>>
     \/ /\ tpc[t] = "call_allow"                    \* Py_BEGIN_ALLOW_THREADS
        /\ PyEval_ReleaseLock(t)
        /\ Goto(t, "call_wait")
        /\ UNCHANGED <<mutex, asyncreqlisthead, asyncpipe, thhist>>
     \/ /\ tpc[t] = "call_wait"
        /\ IF asyncreq_done(asyncreq[t])
           THEN Goto(t, "call_end") /\ UNCHANGED mutex
           ELSE Goto(t, "call_condwait") /\ pthread_mutex_unlock(asyncreq_mutex(t))
        /\ UNCHANGED <<gil, asyncreqlisthead, asyncpipe, thhist>>
     \/ /\ tpc[t] = "call_condwait"                 \* woken by the broadcast
        /\ asyncreq_done(asyncreq[t])
        /\ pthread_mutex_lock(t, asyncreq_mutex(t))
        /\ Goto(t, "call_end")
        /\ UNCHANGED <<gil, asyncreqlisthead, asyncpipe, thhist>>
     \/ /\ tpc[t] = "call_end"                      \* Py_END_ALLOW_THREADS
        /\ PyEval_AcquireLock(t)
        /\ Goto(t, "call_unlock")
        /\ UNCHANGED <<mutex, asyncreqlisthead, asyncpipe, thhist>>
     \/ /\ tpc[t] = "call_unlock"
        /\ pthread_mutex_unlock(asyncreq_mutex(t))
        /\ thhist' = [thhist EXCEPT !.released = Append(@, asyncreq[t].id)]
        /\ IF asyncreq[t].func = "async_cmdreq"
           THEN Goto(t, "cmd_return") /\ UNCHANGED gil
           ELSE Goto(t, "python") /\ PyEval_ReleaseLock(t)
        /\ UNCHANGED <<asyncreqlisthead, asyncpipe>>
  /\ UNCHANGED <<asyncreq, cmdwait, thop, ThrOther>>

\* VCmd_init and VCmd_dealloc: call_asyncfunc with async_newclientreq and
\* with async_delclientreq
VCmd_init(t, func) ==
  /\ tpc[t] = "python"
  /\ thhist.calls < MaxThreadCalls
  /\ PyEval_AcquireLock(t)
  /\ asyncreq' = [asyncreq EXCEPT ![t] =
                    [id |-> thhist.calls + 1, done |-> FALSE, func |-> func, k |-> 0]]
  /\ thhist' = [thhist EXCEPT !.calls = @ + 1]
  /\ Goto(t, "call_locklist")
  /\ UNCHANGED <<mutex, asyncreqlisthead, asyncpipe, cmdwait, thop, ThrOther>>

\* _VCmd_cmd: a new VCmdWait, whose mutex is held over call_asyncfunc with
\* async_cmdreq and until the object is returned
VCmd_cmd(t) ==
  /\ \/ /\ tpc[t] = "python"
        /\ thhist.calls < MaxThreadCalls
        /\ PyEval_AcquireLock(t)
        /\ \E k \in WaitObjs :
             /\ ~cmdwait[k].made
             /\ \A j \in 1..(k - 1) : cmdwait[j].made
             /\ cmdwait' = [cmdwait EXCEPT ![k].made = TRUE]
             /\ pthread_mutex_lock(t, cmdwait_mutex(k))
             /\ asyncreq' = [asyncreq EXCEPT ![t] =
                  [id |-> thhist.calls + 1, done |-> FALSE,
                   func |-> "async_cmdreq", k |-> k]]
        /\ thhist' = [thhist EXCEPT !.calls = @ + 1]
        /\ Goto(t, "call_locklist")
     \/ /\ tpc[t] = "cmd_return"
        /\ cmdwait' = [cmdwait EXCEPT ![asyncreq[t].k].returned =
                                        cmdwait[asyncreq[t].k].cmdid >= 0]
        /\ pthread_mutex_unlock(cmdwait_mutex(asyncreq[t].k))
        /\ PyEval_ReleaseLock(t)
        /\ Goto(t, "python")
        /\ UNCHANGED <<asyncreq, thhist>>
  /\ UNCHANGED <<asyncreqlisthead, asyncpipe, thop, ThrOther>>

\* VCmdWait_wait on an object that _VCmd_cmd returned: the mutex is taken
\* with the interpreter lock held, and the interpreter lock is taken again
\* with the mutex held
VCmdWait_wait(t) ==
  /\ \/ /\ tpc[t] = "python"
        /\ thhist.calls < MaxThreadCalls
        /\ PyEval_AcquireLock(t)
        /\ \E k \in WaitObjs : cmdwait[k].returned /\ thop' = [thop EXCEPT ![t] = k]
        /\ thhist' = [thhist EXCEPT !.calls = @ + 1]
        /\ Goto(t, "wait_lock")
        /\ UNCHANGED mutex
     \/ /\ tpc[t] = "wait_lock"
        /\ pthread_mutex_lock(t, cmdwait_mutex(thop[t]))
        /\ Goto(t, "wait_allow")
        /\ UNCHANGED <<gil, thop, thhist>>
     \/ /\ tpc[t] = "wait_allow"                    \* Py_BEGIN_ALLOW_THREADS
        /\ PyEval_ReleaseLock(t)
        /\ Goto(t, "wait_wait")
        /\ UNCHANGED <<mutex, thop, thhist>>
     \/ /\ tpc[t] = "wait_wait"
        /\ IF cmdwait[thop[t]].complete
           THEN Goto(t, "wait_end") /\ UNCHANGED mutex
           ELSE Goto(t, "wait_condwait") /\ pthread_mutex_unlock(cmdwait_mutex(thop[t]))
        /\ UNCHANGED <<gil, thop, thhist>>
     \/ /\ tpc[t] = "wait_condwait"                 \* woken by the broadcast
        /\ cmdwait[thop[t]].complete
        /\ pthread_mutex_lock(t, cmdwait_mutex(thop[t]))
        /\ Goto(t, "wait_end")
        /\ UNCHANGED <<gil, thop, thhist>>
     \/ /\ tpc[t] = "wait_end"                      \* Py_END_ALLOW_THREADS
        /\ PyEval_AcquireLock(t)
        /\ Goto(t, "wait_status")
        /\ UNCHANGED <<mutex, thop, thhist>>
     \/ /\ tpc[t] = "wait_status"
        /\ thhist' = [thhist EXCEPT !.waited =
             Append(@, [k |-> thop[t], status |-> cmdwait[thop[t]].status])]
        /\ pthread_mutex_unlock(cmdwait_mutex(thop[t]))
        /\ PyEval_ReleaseLock(t)
        /\ Goto(t, "python")
        /\ UNCHANGED thop
  /\ UNCHANGED <<asyncreqlisthead, asyncpipe, asyncreq, cmdwait, ThrOther>>

\* VCmd_kill: vnode_send_cmdsignal from the calling thread, under the
\* interpreter lock and with no mutex
VCmd_kill(t) ==
  /\ tpc[t] = "python"
  /\ gil = NoThread
  /\ thhist.calls < MaxThreadCalls
  /\ \E k \in WaitObjs : cmdwait[k].returned /\ ~cmdwait[k].complete
  /\ thhist' = [thhist EXCEPT !.calls = @ + 1, !.kills = @ + 1]
  /\ UNCHANGED <<tpc, gil, mutex, asyncreqlisthead, asyncpipe, asyncreq, cmdwait, thop,
                 ThrOther>>

\* vcmd_asyncreq_cb, the callback of the pipe's read end: the pipe is read
\* until it is empty, then requests are taken from the list until it is
\* empty, each run and its caller told
vcmd_asyncreq_cb ==
  /\ \/ /\ tpc[LoopThread] = "ev_loop"
        /\ asyncpipe > 0
        /\ asyncpipe' = 0
        /\ Goto(LoopThread, "cb_locklist")
        /\ UNCHANGED <<mutex, asyncreqlisthead, asyncreq, cmdwait, thop, thhist>>
     \/ /\ tpc[LoopThread] = "cb_locklist"
        /\ pthread_mutex_lock(LoopThread, asyncreqlist_mutex)
        /\ Goto(LoopThread, "cb_first")
        /\ UNCHANGED <<asyncreqlisthead, asyncpipe, asyncreq, cmdwait, thop, thhist>>
     \/ /\ tpc[LoopThread] = "cb_first"
        /\ pthread_mutex_unlock(asyncreqlist_mutex)
        /\ IF asyncreqlisthead = <<>>
           THEN Goto(LoopThread, "ev_loop") /\ UNCHANGED <<asyncreqlisthead, thop>>
           ELSE /\ thop' = [thop EXCEPT ![LoopThread] =
                              asyncreq_dequeue(asyncreqlisthead).req]
                /\ asyncreqlisthead' = asyncreq_dequeue(asyncreqlisthead).rest
                /\ Goto(LoopThread, "cb_run")
        /\ UNCHANGED <<asyncpipe, asyncreq, cmdwait, thhist>>
     \/ /\ tpc[LoopThread] = "cb_run"               \* asyncreq->asyncfunc
        /\ LET r == asyncreq[thop[LoopThread]] IN
             /\ thhist' = [thhist EXCEPT !.run = Append(@, r.id)]
             /\ IF r.func = "async_cmdreq"
                THEN \E id \in {0 - 1, r.k - 1} :
                       cmdwait' = [cmdwait EXCEPT ![r.k].cmdid = id]
                ELSE UNCHANGED cmdwait
        /\ Goto(LoopThread, "cb_lockreq")
        /\ UNCHANGED <<mutex, asyncreqlisthead, asyncpipe, asyncreq, thop>>
     \/ /\ tpc[LoopThread] = "cb_lockreq"
        /\ pthread_mutex_lock(LoopThread, asyncreq_mutex(thop[LoopThread]))
        /\ Goto(LoopThread, "cb_done")
        /\ UNCHANGED <<asyncreqlisthead, asyncpipe, asyncreq, cmdwait, thop, thhist>>
     \/ /\ tpc[LoopThread] = "cb_done"
        /\ asyncreq' = [asyncreq EXCEPT ![thop[LoopThread]].done = TRUE]
        /\ pthread_mutex_unlock(asyncreq_mutex(thop[LoopThread]))
        /\ Goto(LoopThread, "cb_locklist")
        /\ UNCHANGED <<asyncreqlisthead, asyncpipe, cmdwait, thop, thhist>>
  /\ UNCHANGED <<gil, ThrOther>>

\* vcmd_cmddonecb of the module, called by the client library in the loop
\* thread for a command that vnode_client_cmdreq accepted
vcmdmodule_cmddonecb ==
  /\ \/ /\ tpc[LoopThread] = "ev_loop"
        /\ \E k \in WaitObjs :
             /\ cmdwait[k].cmdid >= 0 /\ ~cmdwait[k].cb
             /\ cmdwait' = [cmdwait EXCEPT ![k].cb = TRUE]
             /\ thop' = [thop EXCEPT ![LoopThread] = k]
        /\ Goto(LoopThread, "done_lock")
        /\ UNCHANGED <<gil, mutex>>
     \/ /\ tpc[LoopThread] = "done_lock"
        /\ pthread_mutex_lock(LoopThread, cmdwait_mutex(thop[LoopThread]))
        /\ Goto(LoopThread, "done_set")
        /\ UNCHANGED <<gil, cmdwait, thop>>
     \/ /\ tpc[LoopThread] = "done_set"
        /\ \E st \in WaitStatuses :
             cmdwait' = [cmdwait EXCEPT ![thop[LoopThread]].status = st,
                                        ![thop[LoopThread]].complete = TRUE]
        /\ pthread_mutex_unlock(cmdwait_mutex(thop[LoopThread]))
        /\ Goto(LoopThread, "done_ensure")
        /\ UNCHANGED <<gil, thop>>
     \/ /\ tpc[LoopThread] = "done_ensure"          \* PyGILState_Ensure
        /\ PyEval_AcquireLock(LoopThread)
        /\ Goto(LoopThread, "done_decref")
        /\ UNCHANGED <<mutex, cmdwait, thop>>
     \/ /\ tpc[LoopThread] = "done_decref"          \* PyGILState_Release
        /\ PyEval_ReleaseLock(LoopThread)
        /\ Goto(LoopThread, "ev_loop")
        /\ UNCHANGED <<mutex, cmdwait, thop>>
  /\ UNCHANGED <<asyncreqlisthead, asyncpipe, asyncreq, thhist, ThrOther>>

\* vcmd_ioerrorcb of the module, called in the loop thread
vcmdmodule_ioerrorcb ==
  /\ \/ /\ tpc[LoopThread] = "ev_loop"
        /\ thhist.ioerrs < MaxThreadIoErrors
        /\ thhist' = [thhist EXCEPT !.ioerrs = @ + 1]
        /\ Goto(LoopThread, "ioerror_ensure")
        /\ UNCHANGED gil
     \/ /\ tpc[LoopThread] = "ioerror_ensure"       \* PyGILState_Ensure
        /\ PyEval_AcquireLock(LoopThread)
        /\ Goto(LoopThread, "ioerror_release")
        /\ UNCHANGED thhist
     \/ /\ tpc[LoopThread] = "ioerror_release"      \* PyGILState_Release
        /\ PyEval_ReleaseLock(LoopThread)
        /\ Goto(LoopThread, "ev_loop")
        /\ UNCHANGED thhist
  /\ UNCHANGED <<mutex, asyncreqlisthead, asyncpipe, asyncreq, cmdwait, thop, ThrOther>>

\* ------------------------------------------------------ specification
\* no client has connected yet
InitProto ==
  /\ clientlisthead = <<>>
  /\ cmdlisthead = <<>>
  /\ sclosed = {}
  /\ running = {}
  /\ zombies = {}
  /\ c2s = [c \in Clients |-> <<>>]
  /\ s2c = [c \in Clients |-> <<>>]
  /\ cstate = [c \in Clients |-> "init"]
  /\ ccmdlist = [c \in Clients |-> <<>>]
  /\ nextid = [c \in Clients |-> 0]
  /\ ret = [c \in Clients |-> <<>>]
  /\ done = [c \in Clients |-> <<>>]
  /\ ioerrs = [c \in Clients |-> 0]
  /\ nsig = 0
  /\ vcmdexit = [c \in Clients |-> 0 - 1]
  /\ InitThreads
  /\ ackSent = {}
  /\ statusSent = {}
  /\ kills = {}

\* the command lines of vnoded: -n, -c, -p, -C
ArgSet ==
  [newnetns : BOOLEAN,
   ctrlchnlname : {Path(TRUE, "ctrl"), Path(FALSE, "ctrl")},
   pidfilename : {NoPath, Path(TRUE, "pid"), Path(FALSE, "pid")},
   chdirname : {"", "/conf"}]

\* a supervisor in its event loop, started with absolute paths
InitRunning ==
  /\ spc = "loop"
  /\ args = [newnetns |-> FALSE, ctrlchnlname |-> Path(TRUE, "ctrl"),
             pidfilename |-> Path(TRUE, "pid"), chdirname |-> ""]
  /\ cwd = StartDir
  /\ vnodeserver = [alloc |-> TRUE, ctrlchnlname |-> args.ctrlchnlname,
                    pidfilename |-> args.pidfilename]
  /\ ppc = "none"
  /\ exitinfo = NoExit
  /\ InitCleanup
  /\ fs = {Resolve(args.ctrlchnlname, cwd), Resolve(args.pidfilename, cwd)}

\* no vnode_client_cmdreq call with descriptors under way
InitIdleIO ==
  /\ iopc = "idle"
  /\ cmdio = NoCmdio
  /\ fdtable = StdFds
  /\ bundle = <<>>
  /\ ioret = 0 - 1

\* no datagram being read, nothing forked, no request made
InitIdleWire ==
  /\ rx = NoRx
  /\ spawned = <<>>
  /\ argcs = [c \in Clients |-> <<>>]
  /\ srvfds = {}

Init == InitProto /\ InitRunning /\ InitIdleIO /\ InitIdleWire

Next ==
  \/ \E c \in Clients : vnode_client(c)
  \/ \E c \in Clients : vnode_client_cmdreq(c)
  \/ \E c \in Clients, id \in CmdIds : ClientKill(c, id)
  \/ \E c \in Clients : ClientClose(c)
  \/ \E c \in Clients : ClientRecvMsg(c)
  \/ \E c \in Clients : ClientRecvEof(c)
  \/ \E c \in Clients : ServerAccept(c)
  \/ \E c \in Clients : ServerRecvMsg(c)
  \/ \E c \in Clients : ServerRecvEof(c)
  \/ \E p \in PidSet : ChildExit(p)
  \/ \E z \in zombies : vnode_child_cb(z)
  \/ ServerExit

Spec == Init /\ [][Next]_vars

\* the same with clients whose counter has reached INT32_MAX: 2^31 - 1
\* commands have been allocated and have completed
InitWrap ==
  /\ InitRunning /\ InitIdleIO /\ InitIdleWire
  /\ clientlisthead = <<>>
  /\ cmdlisthead = <<>>
  /\ sclosed = {}
  /\ running = {}
  /\ zombies = {}
  /\ c2s = [c \in Clients |-> <<>>]
  /\ s2c = [c \in Clients |-> <<>>]
  /\ cstate = [c \in Clients |-> "init"]
  /\ ccmdlist = [c \in Clients |-> <<>>]
  /\ nextid = [c \in Clients |-> INT32_MAX]
  /\ ret = [c \in Clients |-> <<>>]
  /\ done = [c \in Clients |-> <<>>]
  /\ ioerrs = [c \in Clients |-> 0]
  /\ nsig = 0
  /\ vcmdexit = [c \in Clients |-> 0 - 1]
  /\ InitThreads
  /\ ackSent = {}
  /\ statusSent = {}
  /\ kills = {}

SpecWrap == InitWrap /\ [][Next]_vars

\* the event loops run every handler that is ready, and every child ends
Fairness ==
  /\ \A c \in Clients :
       /\ WF_vars(ClientRecvMsg(c))
       /\ WF_vars(ClientRecvEof(c))
       /\ WF_vars(ServerAccept(c))
       /\ WF_vars(ServerRecvMsg(c))
       /\ WF_vars(ServerRecvEof(c))
  /\ \A p \in PidSet : WF_vars(ChildExit(p))
  /\ WF_vars(\E z \in zombies : vnode_child_cb(z))

FairSpec == Spec /\ Fairness

\* one vnode_client_cmdreq call, from a process with any of stdin, stdout and
\* stderr open
InitIO ==
  /\ InitProto
  /\ InitRunning
  /\ iopc = "start"
  /\ cmdio = NoCmdio
  /\ fdtable \in SUBSET StdFds
  /\ bundle = <<>>
  /\ ioret = 0 - 1
  /\ InitIdleWire

NextIO ==
  \/ \E t \in IoTypes : vnode_open_clientcmdio(t)
  \/ vnode_client_cmdreq_io

SpecIO == InitIO /\ [][NextIO]_vars

\* the supervisor from main(), with clients submitting commands meanwhile
InitSup ==
  /\ InitProto
  /\ InitIdleIO
  /\ InitIdleWire
  /\ spc = "main"
  /\ args \in ArgSet
  /\ cwd = StartDir
  /\ vnodeserver = [alloc |-> FALSE, ctrlchnlname |-> NoPath, pidfilename |-> NoPath]
  /\ ppc = "none"
  /\ exitinfo = NoExit
  /\ InitCleanup
  /\ fs = {}

NextSup ==
  \/ vnode_listen
  \/ vnoded_nsfork
  \/ vnoded_pidfile
  \/ vnoded_parent
  \/ vnoded_chdir
  \/ vnode_newserver
  \/ \E c \in Clients : vnode_client(c)
  \/ \E c \in Clients : vnode_client_cmdreq(c)
  \/ \E c \in Clients : ServerAccept(c)
  \/ \E c \in Clients : ServerRecvMsg(c)
  \/ ServerExit

SpecSup == InitSup /\ [][NextSup]_vars

\* a supervisor in its event loop that SIGTERM and SIGINT reach at any time,
\* started with absolute paths, with and without a namespace and a pid file
InitExit ==
  /\ InitProto
  /\ InitIdleIO
  /\ InitIdleWire
  /\ spc = "loop"
  /\ args \in {a \in ArgSet : /\ a.ctrlchnlname.abs
                              /\ a.pidfilename.abs \/ a.pidfilename = NoPath
                              /\ a.chdirname = ""}
  /\ cwd = StartDir
  /\ vnodeserver = [alloc |-> TRUE, ctrlchnlname |-> args.ctrlchnlname,
                    pidfilename |-> args.pidfilename]
  /\ ppc = IF args.newnetns THEN "exited" ELSE "none"
  /\ exitinfo = NoExit
  /\ InitCleanup
  /\ fs = {Resolve(args.ctrlchnlname, cwd)} \cup
          (IF args.pidfilename.name # "" THEN {Resolve(args.pidfilename, cwd)}
           ELSE {})

NextExit ==
  \/ \E c \in Clients : vnode_client(c)
  \/ \E c \in Clients : vnode_client_cmdreq(c)
  \/ \E c \in Clients : ServerAccept(c)
  \/ \E c \in Clients : ServerRecvMsg(c)
  \/ \E sig \in ExitSignals : sigexit(sig)
  \/ cleanup_unlink_ctrl
  \/ cleanup_unlink_pid
  \/ cleanup_delclient
  \/ cleanup_free_cmds
  \/ cleanup_killall

SpecExit == InitExit /\ [][NextExit]_vars

\* a supervisor that has entered cleanup() and called vnode_delserver, with
\* any children running or ended
InitKill ==
  /\ InitIdleIO
  /\ InitIdleWire
  /\ clientlisthead = <<>>
  /\ cmdlisthead = <<>>
  /\ sclosed = Clients
  /\ running \in SUBSET PidSet
  /\ zombies \in SUBSET [pid : PidSet \ running, status : ExitStatuses]
  /\ c2s = [c \in Clients |-> <<>>]
  /\ s2c = [c \in Clients |-> <<>>]
  /\ cstate = [c \in Clients |-> "init"]
  /\ ccmdlist = [c \in Clients |-> <<>>]
  /\ nextid = [c \in Clients |-> 0]
  /\ ret = [c \in Clients |-> <<>>]
  /\ done = [c \in Clients |-> <<>>]
  /\ ioerrs = [c \in Clients |-> 0]
  /\ nsig = 0
  /\ vcmdexit = [c \in Clients |-> 0 - 1]
  /\ InitThreads
  /\ ackSent = {}
  /\ statusSent = {}
  /\ kills = {}
  /\ spc = "killall"
  /\ args \in {a \in ArgSet : /\ a.ctrlchnlname.abs
                              /\ a.pidfilename.abs \/ a.pidfilename = NoPath
                              /\ a.chdirname = ""}
  /\ cwd = StartDir
  /\ vnodeserver = [alloc |-> TRUE, ctrlchnlname |-> args.ctrlchnlname,
                    pidfilename |-> args.pidfilename]
  /\ ppc = IF args.newnetns THEN "exited" ELSE "none"
  /\ exitinfo = NoExit
  /\ incleanup = TRUE
  /\ sigmask = {}
  /\ cleanups = [entered |-> 1, body |-> 1, finished |-> 0]
  /\ reap = [delay |-> CleanupDelay * TicksPerSec, slept |-> 0, sent |-> <<>>]
  /\ fs = {}

NextKill ==
  \/ cleanup_sigterm
  \/ cleanup_waitpid
  \/ cleanup_nanosleep
  \/ \E p \in PidSet : spc \in {"waitpid", "nanosleep"} /\ ChildExit(p)

SpecKill == InitKill /\ [][NextKill]_vars

\* the supervisor is scheduled: each step of the loop is taken in the end
FairKill ==
  /\ SpecKill
  /\ WF_vars(cleanup_sigterm)
  /\ WF_vars(cleanup_waitpid)
  /\ WF_vars(cleanup_nanosleep)

\* clients that are vcmd processes: each submits one command, reads until
\* its completion callback has ended the loop, and exits
NextVcmd ==
  \/ \E c \in Clients : vnode_client(c)
  \/ \E c \in Clients : vcmd_cmdreqcb(c)
  \/ \E c \in Clients : done[c] = <<>> /\ ClientRecvMsg(c)
  \/ \E c \in Clients : done[c] = <<>> /\ ClientRecvEof(c)
  \/ \E c \in Clients : vcmd_main_exit(c)
  \/ \E c \in Clients : ServerAccept(c)
  \/ \E c \in Clients : ServerRecvMsg(c)
  \/ \E c \in Clients : ServerRecvEof(c)
  \/ \E p \in PidSet : ChildExitWith(p)
  \/ \E z \in zombies : vnode_child_cb(z)
  \/ ServerExit

SpecVcmd == Init /\ [][NextVcmd]_vars

\* ------------------------------------------- specification of the wire
\* values an int32 member is tried with
Int32Vals == {INT32_MIN, 0 - 1, 0, 1, 255, 256, INT32_MAX}

\* argument lists a caller passes: "a" is a program, "b" is not
ReqArgvs == {<<>>, <<Str_a>>, <<Str_b>>}

\* argument lists a CMDREQ is serialized from
SmallArgvs ==
  {<<>>, <<Str_a>>, <<Str_b>>, <<Str_a, Str_b>>, <<Str_a, <<>>>>,
   <<Str_a, Str_b, Str_a>>}

\* argument lists around the limit
LongArgv(n) == [i \in 1..n |-> Str_a]
BoundaryArgvs == {<<>>, LongArgv(1), LongArgv(VNODE_ARGMAX - 1), LongArgv(VNODE_ARGMAX)}

\* the descriptors of VCMD_IO_NONE, and of VCMD_IO_FD as vcmd passes them
NoneFds == <<0 - 1, 0 - 1, 0 - 1>>
StdioFds == <<0, 1, 2>>

\* bytes written to a socket by something else than vnode_send_*
RawFrame(len, type, datalen, tlvs) ==
  [len |-> len, type |-> type, datalen |-> datalen, tlvs |-> tlvs,
   fds |-> <<>>, sent |-> NoCall]

\* a payload of these TLVs; with over > 0 the last TLV claims that many bytes
\* more than the payload holds
RawMsg(type, tlvs, over) ==
  RawFrame(MsgHdrLen + TlvsLen(tlvs, 1, Len(tlvs)), type, TlvsLen(tlvs, 1, Len(tlvs)),
           [i \in 1..Len(tlvs) |->
              IF i = Len(tlvs) THEN [tlvs[i] EXCEPT !.vallen = @ + over] ELSE tlvs[i]])

\* lists of one to n elements of S
SeqsUpTo(S, n) == UNION {[1..k -> S] : k \in 1..n}

\* TLVs a CMDREQ is tried with: a cmdid, a cmdid of three bytes, an argument,
\* an argument without its NUL, an empty value, a type no table has a handler
\* for, a type past the end of the table
ReqTlvs ==
  {vnode_addtlv(VNODE_TLV_CMDID, Int32Len, Int32Bytes(1)),
   vnode_addtlv(VNODE_TLV_CMDID, 3, <<1, 0, 0>>),
   vnode_addtlv(VNODE_TLV_CMDARG, 2, <<97, 0>>),
   vnode_addtlv(VNODE_TLV_CMDARG, 1, <<97>>),
   vnode_addtlv(VNODE_TLV_CMDARG, 0, <<>>),
   vnode_addtlv(VNODE_TLV_STDIN, 1, <<0>>),
   vnode_addtlv(VNODE_TLV_MAX, 1, <<0>>)}

\* TLVs the three other messages are tried with
ValTlvs(tlvtype) ==
  {vnode_addtlv(VNODE_TLV_CMDID, Int32Len, Int32Bytes(0)),
   vnode_addtlv(tlvtype, Int32Len, Int32Bytes(SIGTERM)),
   vnode_addtlv(tlvtype, 5, <<0, 0, 0, 0, 0>>),
   vnode_addtlv(tlvtype, 0, <<>>)}

MaxReqTlvs == 3
MaxValTlvs == 2

\* header problems: no byte at all, a cut header, a type out of range, a
\* length that does not match, a header alone
BadFrames ==
  {RawFrame(n, 0, 0, <<>>) : n \in {0, 1, MsgHdrLen - 1}} \cup
  {RawFrame(MsgHdrLen, t, 0, <<>>) : t \in 0..VNODE_MSG_MAX} \cup
  {RawFrame(MsgHdrLen + 1, t, 0, <<>>) : t \in 1..(VNODE_MSG_MAX - 1)} \cup
  {RawFrame(MsgHdrLen, t, 1, <<>>) : t \in 1..(VNODE_MSG_MAX - 1)}

\* what vnode_send_* writes, for every value of the members
SentFrames ==
  {vnode_send_cmdreq(id, argv, NoneFds) : id \in Int32Vals, argv \in SmallArgvs} \cup
  {vnode_send_cmdreqack(id, v) : id \in Int32Vals, v \in Int32Vals} \cup
  {vnode_send_cmdstatus(id, v) : id \in Int32Vals, v \in Int32Vals} \cup
  {vnode_send_cmdsignal(id, v) : id \in Int32Vals, v \in Int32Vals}

\* what may arrive at the supervisor, and at a client
ToServer ==
  BadFrames \cup SentFrames \cup
  {RawMsg(VNODE_MSG_CMDREQ, t, o) : t \in SeqsUpTo(ReqTlvs, MaxReqTlvs), o \in 0..1} \cup
  {RawMsg(VNODE_MSG_CMDSIGNAL, t, o) :
     t \in SeqsUpTo(ValTlvs(VNODE_TLV_SIGNUM), MaxValTlvs), o \in 0..1}
ToClient ==
  BadFrames \cup SentFrames \cup
  {RawMsg(VNODE_MSG_CMDREQACK, t, o) :
     t \in SeqsUpTo(ValTlvs(VNODE_TLV_CMDPID), MaxValTlvs), o \in 0..1} \cup
  {RawMsg(VNODE_MSG_CMDSTATUS, t, o) :
     t \in SeqsUpTo(ValTlvs(VNODE_TLV_CMDSTATUS), MaxValTlvs), o \in 0..1}

\* what recvmsg() may do: the peer has closed, it fails with an errno, or
\* it reads a datagram, among them datagrams larger than the buffer with a
\* true and with a fitting datalen
RecvOutcomes ==
  {[kind |-> "closed"]} \cup
  {[kind |-> "errno", errno |-> e] : e \in {"EAGAIN", "EINTR", "ECONNRESET"}} \cup
  {[kind |-> "data", d |-> d] :
     d \in ToServer \cup ToClient \cup
           {RawFrame(VNODE_MSGSIZMAX + 1, t, n, <<>>) :
              t \in 0..VNODE_MSG_MAX,
              n \in {VNODE_MSGSIZMAX - MsgHdrLen, VNODE_MSGSIZMAX + 1 - MsgHdrLen}}}

\* vnode_recvmsg from its recvmsg() call on
vnode_recvmsg_ret(r) ==
  IF r.kind = "closed" THEN 0 - 1
  ELSE IF r.kind = "errno" THEN (IF r.errno = "EAGAIN" THEN 0 ELSE 0 - 1)
  ELSE vnode_recvmsg(r.d)

\* a vnode_recvmsg call returns
vnode_recvmsg_call ==
  /\ rx.pc = "recvmsg"
  /\ rx' = [pc |-> "recvd", r |-> rx.r, ret |-> vnode_recvmsg_ret(rx.r)]
  /\ UNCHANGED <<vcmdvars, iovars, supvars, srvvars, chanvars, clivars, histvars,
                 spawned, argcs, srvfds>>

\* client 1 is connected to a supervisor in its event loop
InitConnected ==
  /\ InitRunning
  /\ InitIdleIO
  /\ InitIdleWire
  /\ clientlisthead = <<[fd |-> 1, addr |-> 1]>>
  /\ cmdlisthead = <<>>
  /\ sclosed = {}
  /\ running = {}
  /\ zombies = {}
  /\ cstate = [c \in Clients |-> IF c = 1 THEN "open" ELSE "init"]
  /\ ccmdlist = [c \in Clients |-> <<>>]
  /\ nextid = [c \in Clients |-> 0]
  /\ ret = [c \in Clients |-> <<>>]
  /\ done = [c \in Clients |-> <<>>]
  /\ ioerrs = [c \in Clients |-> 0]
  /\ nsig = 0
  /\ vcmdexit = [c \in Clients |-> 0 - 1]
  /\ InitThreads
  /\ ackSent = {}
  /\ statusSent = {}
  /\ kills = {}

\* ... and one datagram, any, has been written to one end of the connection
InitWire ==
  /\ InitConnected
  /\ \/ /\ c2s \in {[c \in Clients |-> IF c = 1 THEN <<d>> ELSE <<>>] : d \in ToServer}
        /\ s2c = [c \in Clients |-> <<>>]
     \/ /\ s2c \in {[c \in Clients |-> IF c = 1 THEN <<d>> ELSE <<>>] : d \in ToClient}
        /\ c2s = [c \in Clients |-> <<>>]

NextWire ==
  \/ vnode_parsemsg
  \/ msghandlefn
  \/ \E c \in Clients : vnode_msg_cb_server(c)
  \/ \E c \in Clients : vnode_msg_cb_client(c)
  \/ \E c \in Clients, argv \in ReqArgvs, fds \in {NoneFds, StdioFds} :
       /\ rx = NoRx
       /\ SumLen(argcs, Clients) < MaxArgvReqs
       /\ vnode_client_cmdreq_argv(c, argv, fds)
  \/ \E c \in Clients, id \in CmdIds : rx = NoRx /\ ClientKill(c, id)
  \/ \E p \in PidSet : rx = NoRx /\ p \in running /\ SpawnOf(p).exec = "ok" /\ ChildExit(p)
  \/ \E p \in PidSet : rx = NoRx /\ forkexec_exit(p)
  \/ \E z \in zombies : rx = NoRx /\ vnode_child_cb(z)

SpecWire == InitWire /\ [][NextWire]_vars

\* the same with nothing written to the connection but by the two programs
InitFlow ==
  /\ InitConnected
  /\ c2s = [c \in Clients |-> <<>>]
  /\ s2c = [c \in Clients |-> <<>>]

SpecFlow == InitFlow /\ [][NextWire]_vars

\* the two programs with one request after another: a request is made when
\* the one before it has been handled
NextServe ==
  \/ vnode_parsemsg
  \/ msghandlefn
  \/ \E c \in Clients : vnode_msg_cb_server(c)
  \/ \E c \in Clients : vnode_msg_cb_client(c)
  \/ \E c \in Clients, argv \in ReqArgvs, fds \in {NoneFds, StdioFds} :
       /\ rx = NoRx
       /\ SumLen(argcs, Clients) < MaxServeReqs
       /\ vnode_client_cmdreq_argv(c, argv, fds)
  \/ \E p \in PidSet : rx = NoRx /\ p \in running /\ SpawnOf(p).exec = "ok" /\ ChildExit(p)
  \/ \E p \in PidSet : rx = NoRx /\ forkexec_exit(p)
  \/ \E z \in zombies : rx = NoRx /\ vnode_child_cb(z)

SpecServe == InitFlow /\ [][NextServe]_vars

\* a reader in vnode_recvmsg, at its recvmsg() call
InitRecv ==
  /\ InitRunning
  /\ InitIdleIO
  /\ InitProto
  /\ spawned = <<>>
  /\ argcs = [c \in Clients |-> <<>>]
  /\ srvfds = {}
  /\ rx \in {[pc |-> "recvmsg", r |-> r] : r \in RecvOutcomes}

NextRecv == vnode_recvmsg_call

SpecRecv == InitRecv /\ [][NextRecv]_vars

\* a datagram sent with three descriptors in an SCM_RIGHTS control message
WithFds(d) == [d EXCEPT !.fds = StdioFds]

\* datagrams with descriptors: the requests vnode_send_cmdreq writes for
\* VCMD_IO_FD, and what a process that writes to the control socket itself
\* may send
FdFrames ==
  {WithFds(d) : d \in BadFrames} \cup
  {vnode_send_cmdreq(0, argv, StdioFds) : argv \in SmallArgvs} \cup
  {WithFds(vnode_send_cmdsignal(0, SIGTERM))} \cup
  {WithFds(RawMsg(VNODE_MSG_CMDREQ, t, o)) :
     t \in SeqsUpTo(ReqTlvs, MaxFdTlvs), o \in 0..1}

\* client 1 has written one or two such datagrams to its connection
InitFds ==
  /\ InitConnected
  /\ c2s \in {[c \in Clients |-> IF c = 1 THEN q ELSE <<>>] :
               q \in SeqsUpTo(FdFrames, MaxFdFrames)}
  /\ s2c = [c \in Clients |-> <<>>]

NextFds ==
  \/ \E c \in Clients : vnode_msg_cb_server(c)
  \/ vnode_parsemsg
  \/ msghandlefn

SpecFds == InitFds /\ [][NextFds]_vars

\* the python module: threads that make and release VCmd objects and submit
\* commands, and the loop thread
NextAsync ==
  \/ \E t \in Callers, f \in {"async_newclientreq", "async_delclientreq"} :
       thhist.calls < MaxAsyncCalls /\ VCmd_init(t, f)
  \/ \E t \in Callers :
       /\ tpc[t] = "python" => thhist.calls < MaxAsyncCalls
       /\ VCmd_cmd(t)
  \/ \E t \in Callers : call_asyncfunc(t)
  \/ vcmd_asyncreq_cb
  \/ vcmdmodule_cmddonecb
  \/ vcmdmodule_ioerrorcb

SpecAsync == Init /\ [][NextAsync]_vars

\* every thread is scheduled: a step it can take is taken in the end
FairAsync ==
  /\ SpecAsync
  /\ \A t \in Callers : WF_vars(call_asyncfunc(t))
  /\ \A t \in Callers : WF_vars(tpc[t] = "cmd_return" /\ VCmd_cmd(t))
  /\ WF_vars(vcmd_asyncreq_cb)
  /\ WF_vars(tpc[LoopThread] # "ev_loop" /\ vcmdmodule_cmddonecb)
  /\ WF_vars(tpc[LoopThread] # "ev_loop" /\ vcmdmodule_ioerrorcb)

\* ... and threads that wait for commands and send signals as well
NextThreads ==
  \/ \E t \in Callers, f \in {"async_newclientreq", "async_delclientreq"} : VCmd_init(t, f)
  \/ \E t \in Callers : VCmd_cmd(t)
  \/ \E t \in Callers : call_asyncfunc(t)
  \/ vcmd_asyncreq_cb
  \/ vcmdmodule_cmddonecb
  \/ vcmdmodule_ioerrorcb
  \/ \E t \in Callers : VCmdWait_wait(t)
  \/ \E t \in Callers : VCmd_kill(t)

SpecThreads == Init /\ [][NextThreads]_vars

\* a CMDREQ payload of a cmdid and n arguments
ArgTlvs(n) ==
  <<vnode_addtlv(VNODE_TLV_CMDID, Int32Len, Int32Bytes(0))>> \o
  [i \in 1..n |-> vnode_addtlv(VNODE_TLV_CMDARG, Len(Str_a) + 1, Str_a \o <<0>>)]

\* requests around the limit of arguments: nothing is queued, or a CMDREQ of
\* one argument less than, exactly, or one more than VNODE_ARGMAX
InitArgs ==
  /\ InitConnected
  /\ c2s \in {[c \in Clients |-> <<>>]} \cup
             {[c \in Clients |->
                 IF c = 1 THEN <<RawMsg(VNODE_MSG_CMDREQ, ArgTlvs(n), 0)>> ELSE <<>>] :
              n \in {VNODE_ARGMAX - 1, VNODE_ARGMAX, VNODE_ARGMAX + 1}}
  /\ s2c = [c \in Clients |-> <<>>]

NextArgs ==
  \/ vnode_parsemsg
  \/ msghandlefn
  \/ \E c \in Clients : vnode_msg_cb_server(c)
  \/ \E c \in Clients : vnode_msg_cb_client(c)
  \/ \E c \in Clients, argv \in BoundaryArgvs :
       /\ rx = NoRx
       /\ SumLen(argcs, Clients) < MaxArgvReqs
       /\ vnode_client_cmdreq_argv(c, argv, NoneFds)
  \/ \E p \in PidSet : rx = NoRx /\ p \in running /\ SpawnOf(p).exec = "ok" /\ ChildExit(p)
  \/ \E p \in PidSet : rx = NoRx /\ forkexec_exit(p)
  \/ \E z \in zombies : rx = NoRx /\ vnode_child_cb(z)

SpecArgs == InitArgs /\ [][NextArgs]_vars

\* an argument of n bytes, and a list of k such arguments
ByteStr(n) == [i \in 1..n |-> 97]
ArgvOf(k, n) == [i \in 1..k |-> ByteStr(n)]

\* argument lists a frame is built from: few and many arguments, short and
\* long, and one argument that fills a frame of VNODE_MSGSIZMAX bytes
SendArgLens == (0..8) \cup ((MaxArgLen - 10)..MaxArgLen)
SendArgvs ==
  {ArgvOf(k, n) : k \in {1, 2, 3, VNODE_ARGMAX - 2, VNODE_ARGMAX - 1}, n \in SendArgLens}
  \cup {ArgvOf(1, VNODE_MSGSIZMAX - MsgHdrLen - 2 * TlvHdrLen - Int32Len - n) :
          n \in 0..2}

\* one vnode_client_cmdreq call with any of them
NextSend ==
  \E c \in Clients, argv \in SendArgvs, fds \in {NoneFds, StdioFds} :
    SumLen(argcs, Clients) < MaxArgvReqs /\ vnode_client_cmdreq_argv(c, argv, fds)

SpecSend == InitFlow /\ [][NextSend]_vars

\* ---------------------------------------------------------------- claims
\* how often on_done was invoked for the r-th vnode_client_cmdreq call of c
DoneCount(c, r) == Cardinality({i \in 1..Len(done[c]) : done[c][i].req = r})
\* that call returned a cmdid
Succeeded(c, r) == r \in 1..Len(ret[c]) /\ ret[c][r] >= 0

\* C1: every vnode_client_cmdreq call that returned a cmdid has its on_done
\* invoked eventually, and never more than once.
C1_OnDoneExactlyOnce ==
  /\ [](\A c \in Clients : \A r \in 1..MaxReqs : DoneCount(c, r) <= 1)
  /\ \A c \in Clients : \A r \in 1..MaxReqs :
       Succeeded(c, r) ~> (DoneCount(c, r) = 1)

\* C2: every kill() the supervisor makes for a CMDSIGNAL hits a command that
\* was submitted over the connection the CMDSIGNAL came in on.
C2_SignalOnlyOwnCommand == \A k \in kills : k.from = k.owner

\* C3: on each connection, a CMDSTATUS is sent only for a cmdid whose
\* CMDREQACK was sent on that connection before.
C3_AckBeforeStatus ==
  \A s \in statusSent : \E a \in ackSent : a.to = s.to /\ a.cmdid = s.cmdid

\* C4: on_done is passed the cmdid that vnode_client_cmdreq returned for the
\* request whose callback is invoked.
C4_DoneCmdidIsReturned ==
  \A c \in Clients : \A i \in 1..Len(done[c]) :
    /\ done[c][i].req \in 1..Len(ret[c])
    /\ done[c][i].cmdid = ret[c][done[c][i].req]

\* C4 witness: a client's second request (cmdid 1) completed by a CMDSTATUS
C4_Witness ==
  \E c \in Clients : \E i \in 1..Len(done[c]) :
    done[c][i].cmdid = 1 /\ done[c][i].status >= 0

\* C5: no CMDSTATUS is sent, on any connection, for a command whose owning
\* client had been deleted when its child was reaped.
C5_OrphanStatusDropped == \A s \in statusSent : ~s.orphan

\* C6: no two entries of the supervisor's command table have the same pid.
C6_UniquePids ==
  \A i, j \in 1..Len(cmdlisthead) :
    i # j => cmdlisthead[i].pid # cmdlisthead[j].pid

\* C6 witness: two commands are tracked at once
C6_Witness == Len(cmdlisthead) = 2

\* the files the command line names, as seen from where vnoded was started
ConfiguredFiles ==
  {Resolve(args.ctrlchnlname, StartDir)} \cup
  IF args.pidfilename.name # "" THEN {Resolve(args.pidfilename, StartDir)} ELSE {}

\* C8: once the supervisor has left its event loop through exit (SIGTERM,
\* SIGINT or the end of ev_loop) and the start-up processes are gone, neither
\* the control socket path nor the pid-file path exists.
C8_NoPathsAfterShutdown ==
  (spc = "exited" /\ vnodeserver.alloc /\ ppc # "forked") =>
    ConfiguredFiles \cap fs = {}

\* the descriptors the cmdio still refers to
Refs(cio) ==
  {fd \in
     CASE cio.iotype = "VCMD_IO_FD" ->
            {cio.stdiofd.infd, cio.stdiofd.outfd, cio.stdiofd.errfd}
       [] cio.iotype = "VCMD_IO_PIPE" ->
            {cio.stdiopipe.infd[0], cio.stdiopipe.outfd[1], cio.stdiopipe.errfd[1]}
       [] cio.iotype = "VCMD_IO_PTY" -> {cio.stdiopty.slavefd}
       [] OTHER -> {} : fd >= 0}

\* the descriptors that went out in the request's SCM_RIGHTS
Sent == {bundle[i] : i \in 1..Len(bundle)}

C9_IoErrorCompletesInFlight ==
  \A c \in Clients :
    /\ [](ioerrs[c] <= 1 /\ (ioerrs[c] = 1 => cstate[c] # "open"))
    /\ (ioerrs[c] = 1) ~> (ccmdlist[c] = <<>>)

\* the pid the client has been told for cmdid id: that of the CMDREQACK, once
\* it has been received, and -1 before
AckedPid(c, id) ==
  LET arrived == {a \in ackSent :
                    /\ a.to = c /\ a.cmdid = id
                    /\ \A k \in 1..Len(s2c[c]) :
                         ~(s2c[c][k].type = "CMDREQACK" /\ s2c[c][k].cmdid = id)}
  IN IF arrived = {} THEN 0 - 1 ELSE (CHOOSE a \in arrived : TRUE).pid

\* C10: vnode_delclient invokes on_done(cmdid, pid, -1) once for each entry in
\* flight, pid being the acknowledged pid or -1, and leaves the table empty.
C10_DelclientCompletesAll ==
  [][\A c \in Clients :
       (cstate[c] # "closed" /\ cstate'[c] = "closed") =>
         /\ ccmdlist'[c] = <<>>
         /\ Len(done'[c]) = Len(done[c]) + Len(ccmdlist[c])
         /\ \A i \in 1..Len(ccmdlist[c]) :
              done'[c][Len(done[c]) + i] =
                [req |-> ccmdlist[c][i].req, cmdid |-> ccmdlist[c][i].cmdid,
                 pid |-> AckedPid(c, ccmdlist[c][i].cmdid), status |-> 0 - 1]
         /\ \A i \in 1..Len(done[c]) : done'[c][i] = done[c][i]]_vars

\* C10 witness: a client was closed with an acknowledged command in flight
C10_Witness ==
  \E c \in Clients : \E i \in 1..Len(done[c]) :
    cstate[c] = "closed" /\ done[c][i].status = 0 - 1 /\ done[c][i].pid > 0

\* the supervisor pops a CMDREQ of c in this step and c's end is closed: the
\* sendmsg of the CMDREQACK fails
AckSendFails(c) ==
  /\ c \in LiveFds /\ c2s[c] # <<>> /\ c2s'[c] = Tail(c2s[c])
  /\ Head(c2s[c]).type = "CMDREQ"
  /\ ~ClientFdOpen(c)

\* the supervisor reaps a child of c in this step and c's end is closed: the
\* sendmsg of the CMDSTATUS fails
StatusSendFails(c) ==
  \E z \in zombies \ zombies' :
    /\ CmdByPid(z.pid) # 0
    /\ cmdlisthead[CmdByPid(z.pid)].conn = c
    /\ c \in LiveFds
    /\ ~ClientFdOpen(c)

\* C11: while the supervisor serves, a failed send of CMDREQACK or CMDSTATUS
\* to a client removes that client from the client set and closes its fd; a
\* client that is removed has its fd closed and every other client stays.
C11_IoErrorRemovesClient ==
  [][(spc = "loop" /\ spc' = "loop") =>
       \A c \in Clients :
         /\ (AckSendFails(c) \/ StatusSendFails(c)) =>
              (c \notin LiveFds' /\ c \in sclosed')
         /\ (c \in LiveFds /\ c \notin LiveFds') =>
              (c \in sclosed' /\ LiveFds \ {c} \subseteq LiveFds')]_vars

\* a datagram the reader of that side is to discard for its header: cut
\* short, a type out of range, a length that does not match, or a type the
\* side has no handler for
HeaderRejected(side, d) ==
  \/ d.len < MsgHdrLen
  \/ d.type = VNODE_MSG_NONE \/ d.type >= VNODE_MSG_MAX
  \/ d.len - MsgHdrLen # d.datalen
  \/ ~msghandler(side, d.type)

\* C12: reading a datagram with a truncated header, a type of NONE or >= MAX,
\* a length mismatch or a type without handler, and parsing one whatever its
\* TLVs are, leaves the connection up: the supervisor keeps running with the
\* client in its client set, and the client's reader stays started.
C12_MalformedKeepsConnection ==
  [][/\ \A c \in Clients :
          (/\ c \in LiveFds /\ c2s[c] # <<>> /\ c2s'[c] = Tail(c2s[c])
           /\ HeaderRejected("server", ToWire(Head(c2s[c]))))
          => (c \in LiveFds' /\ spc' = "loop")
     /\ \A c \in Clients :
          (/\ cstate[c] = "open" /\ s2c[c] # <<>> /\ s2c'[c] = Tail(s2c[c])
           /\ HeaderRejected("client", ToWire(Head(s2c[c]))))
          => cstate'[c] = "open"
     /\ (rx.pc = "parse" /\ rx.side = "server")
          => (rx.c \in LiveFds' /\ spc' = "loop")
     /\ (rx.pc = "parse" /\ rx.side = "client") => cstate'[rx.c] = "open"]_vars

\* the execvp of the child forked as pid for cmdid failed
ExecFailed(cmdid, pid) ==
  \E k \in 1..Len(spawned) :
    spawned[k].cmdid = cmdid /\ spawned[k].pid = pid /\ spawned[k].exec = "failed"

\* C13: when a handler of the client completes a command whose spawn failed,
\* fork having returned -1 or the exec of argv[0] having failed in the child,
\* on_done gets pid -1 and status -1, and the I/O-error callback is not run.
C13_SpawnFailureIsPidMinusOne ==
  [][\A c \in Clients :
       (Len(done'[c]) = Len(done[c]) + 1 /\ cstate'[c] = "open") =>
         LET d == done'[c][Len(done'[c])] IN
           (\/ [to |-> c, cmdid |-> d.cmdid, pid |-> 0 - 1] \in ackSent
            \/ ExecFailed(d.cmdid, d.pid)) =>
             (d.pid = 0 - 1 /\ d.status = 0 - 1 /\ ioerrs'[c] = ioerrs[c])]_vars

\* the message type a vnode_send_* call writes
TypeOfCall(call) ==
  CASE call = "vnode_send_cmdreq" -> VNODE_MSG_CMDREQ
    [] call = "vnode_send_cmdreqack" -> VNODE_MSG_CMDREQACK
    [] call = "vnode_send_cmdstatus" -> VNODE_MSG_CMDSTATUS
    [] call = "vnode_send_cmdsignal" -> VNODE_MSG_CMDSIGNAL

\* C14: when vnode_parsemsg is through with a datagram that a vnode_send_*
\* call wrote and that fits VNODE_MSGSIZMAX, the parse has succeeded and the
\* handler holds the type and cmdid of the call and, for a CMDREQ of 1 to
\* VNODE_ARGMAX - 1 arguments, the same strings in the same order, for the
\* three other messages the same second int32.
C14_RoundTrip ==
  (LoopEnded /\ rx.msg.sent.call # "none" /\ rx.msg.len <= VNODE_MSGSIZMAX) =>
    LET s == rx.msg.sent IN
      IF s.call = "vnode_send_cmdreq"
      THEN (Len(s.argv) >= 1 /\ Len(s.argv) < VNODE_ARGMAX) =>
             /\ rx.tmp = 0
             /\ rx.msg.type = TypeOfCall(s.call)
             /\ rx.data.cmdid = s.cmdid
             /\ rx.data.cmdarg = s.argv
      ELSE /\ rx.tmp = 0
           /\ rx.msg.type = TypeOfCall(s.call)
           /\ rx.data.cmdid = s.cmdid
           /\ rx.data.val = s.val

\* C14 witness: a CMDREQ with the least cmdid and three arguments, one of
\* them recurring, has been parsed
C14_Witness ==
  /\ LoopEnded
  /\ rx.msg.sent.call = "vnode_send_cmdreq"
  /\ rx.msg.sent.cmdid = INT32_MIN
  /\ Len(rx.msg.sent.argv) = 3

\* C15: a vnode_client_cmdreq call with VNODE_ARGMAX arguments returns -1 and
\* sends nothing, and the supervisor forks no process for a CMDREQ that
\* carries VNODE_ARGMAX CMDARG TLVs.
C15_ArgmaxRejected ==
  [][/\ \A c \in Clients :
          (Len(argcs'[c]) = Len(argcs[c]) + 1
           /\ argcs'[c][Len(argcs'[c])] = VNODE_ARGMAX)
          => (ret'[c][Len(ret'[c])] = 0 - 1 /\ c2s' = c2s)
     /\ \A k \in (Len(spawned) + 1)..Len(spawned') :
          spawned'[k].argc # VNODE_ARGMAX]_vars

\* C16: a vnode_client_cmdreq call with no argument returns -1 and sends
\* nothing, and the supervisor forks no process for a CMDREQ without a CMDARG.
C16_EmptyArgvRejected ==
  [][/\ \A c \in Clients :
          (Len(argcs'[c]) = Len(argcs[c]) + 1 /\ argcs'[c][Len(argcs'[c])] = 0)
          => (ret'[c][Len(ret'[c])] = 0 - 1 /\ c2s' = c2s)
     /\ \A k \in (Len(spawned) + 1)..Len(spawned') : spawned'[k].argc # 0]_vars

\* the k-th TLV of d is a CMDARG that lies within the payload, has a value,
\* and whose value does not end in a NUL
UnterminatedArg(d, k) ==
  /\ d.tlvs[k].type = VNODE_TLV_CMDARG
  /\ d.tlvs[k].vallen >= 1
  /\ TlvsLen(d.tlvs, 1, k) <= d.datalen
  /\ d.tlvs[k].val[d.tlvs[k].vallen] # 0

\* C17: when the supervisor has parsed a CMDREQ that holds, at any place, a
\* CMDARG TLV whose value does not end in a NUL, the handler returns without
\* forking, without a new command entry and without sending a CMDREQACK.
C17_UnterminatedArgSkipsMessage ==
  [][(/\ LoopEnded /\ rx.side = "server" /\ rx.msg.type = VNODE_MSG_CMDREQ
      /\ \E k \in 1..Len(rx.msg.tlvs) : UnterminatedArg(rx.msg, k))
     => (/\ rx.tmp # 0
         /\ running' = running /\ spawned' = spawned
         /\ cmdlisthead' = cmdlisthead
         /\ s2c' = s2c /\ ackSent' = ackSent)]_vars

\* C17 witness: the parse of a CMDREQ has ended on a bad CMDARG that stands
\* between a CMDID and a well-formed CMDARG
C17_Witness ==
  /\ LoopEnded /\ rx.side = "server" /\ rx.msg.type = VNODE_MSG_CMDREQ
  /\ Len(rx.msg.tlvs) = 3
  /\ rx.msg.tlvs[1] = vnode_addtlv(VNODE_TLV_CMDID, Int32Len, Int32Bytes(1))
  /\ UnterminatedArg(rx.msg, 2)
  /\ rx.msg.tlvs[3] = vnode_addtlv(VNODE_TLV_CMDARG, 2, <<97, 0>>)
  /\ rx.data.cmdid = 1

\* the datagram under parse is a bare header of a known type: 8 bytes, datalen 0
HeaderOnly ==
  /\ LoopEnded
  /\ rx.msg.len = MsgHdrLen /\ rx.msg.datalen = 0
  /\ rx.msg.type \in {VNODE_MSG_CMDREQ, VNODE_MSG_CMDREQACK,
                      VNODE_MSG_CMDSTATUS, VNODE_MSG_CMDSIGNAL}

\* C18: a datagram that is only the 8-byte header with datalen = 0 is rejected
\* for each of the four message types: vnode_parsemsg returns non-zero and the
\* handler's step spawns no process, sends no signal and no datagram, adds or
\* removes no entry of the command table of either side and invokes no
\* completion callback
C18_HeaderOnlyRejected ==
  [][HeaderOnly
     => (/\ rx.tmp # 0
         /\ running' = running /\ zombies' = zombies /\ spawned' = spawned
         /\ kills' = kills
         /\ cmdlisthead' = cmdlisthead /\ clientlisthead' = clientlisthead
         /\ ccmdlist' = ccmdlist /\ done' = done
         /\ c2s' = c2s /\ s2c' = s2c
         /\ ackSent' = ackSent /\ statusSent' = statusSent)]_vars

\* C18 witness: the client has parsed a bare CMDSTATUS header while a command
\* of its own is waiting in its table
C18_Witness ==
  /\ HeaderOnly
  /\ rx.side = "client" /\ rx.msg.type = VNODE_MSG_CMDSTATUS
  /\ ccmdlist[rx.c] # <<>>
  /\ rx.tmp # 0

\* C19: the child forked for a request of the NONE variant (three -1
\* descriptors) that executes its program has its stdin, stdout and stderr
\* closed; none of them is a descriptor of the supervisor.
C19_NoneChildStdioClosed ==
  [][(/\ LoopEnded /\ rx.side = "server" /\ rx.msg.type = VNODE_MSG_CMDREQ
      /\ rx.fds = NoneFds)
     => \A k \in (Len(spawned) + 1)..Len(spawned') :
          spawned'[k].exec = "ok"
          => \A fd \in StdFds : spawned'[k].stdio[fd].of = "closed"]_vars

\* the descriptors the caller set with SET_STDIOFD
CallerFds == <<cmdio.stdiofd.infd, cmdio.stdiofd.outfd, cmdio.stdiofd.errfd>>

\* C20: when a vnode_client_cmdreq call of the FD variant has ended, with some
\* of the caller's three descriptors -1 and the others open, and sendmsg did
\* not fail, then the call returned and the request's SCM_RIGHTS holds the
\* three slots as the caller gave them.
C20_FdVariantSentAsGiven ==
  (/\ cmdio.iotype = "VCMD_IO_FD"
   /\ iopc \in {"returned", "aborted"}
   /\ \E k \in 1..3 : CallerFds[k] = 0 - 1
   /\ \E k \in 1..3 : CallerFds[k] >= 0
   /\ \A k \in 1..3 : CallerFds[k] >= 0 => CallerFds[k] \in fdtable
   /\ ~(iopc = "returned" /\ ioret = 0 - 1))
  => (iopc = "returned" /\ ioret >= 0 /\ bundle = CallerFds)

\* C21: whenever the supervisor's start-up has failed (socket, bind, listen,
\* the namespace clone, or the creation of the server object), the supervisor
\* ended with a non-zero status and neither the control socket nor the pid
\* file exists.
C21_StartupFailureLeavesNothing ==
  exitinfo.failed # "none" =>
    /\ exitinfo.status # "exit(0)"
    /\ ConfiguredFiles \cap fs = {}

\* C22: once the supervisor has ended through a shutdown signal, the body of
\* cleanup() has run exactly once and has reached its end; a cleanup() call
\* made while the first is under way does nothing.
C22_CleanupOnceToCompletion ==
  (spc = "exited" /\ exitinfo = Exited("none", "exit(0)"))
  => (cleanups.body = 1 /\ cleanups.finished = 1)

\* C23: a vcmd whose command has completed (its completion callback was
\* called) and that has exited, exited with the child's WEXITSTATUS when the
\* status it was given says the child exited normally, and with 255 otherwise.
C23_VcmdExitCode ==
  \A c \in Clients :
    (vcmdexit[c] # 0 - 1 /\ done[c] # <<>>)
    => LET status == done[c][Len(done[c])].status IN
       vcmdexit[c] = IF WIFEXITED(status) THEN WEXITSTATUS(status) ELSE 255

\* the datagram read for a queued element was not written by a vnode_send_*
\* call, or is at most VNODE_MSGSIZMAX bytes long, header included
FrameWithinMax(x) ==
  ToWire(x).sent.call = "none" \/ ToWire(x).len <= VNODE_MSGSIZMAX

\* C24: every datagram that a vnode_send_* call has written to a connection
\* is at most VNODE_MSGSIZMAX (65535) bytes long, header included, whatever
\* the number and the length of the arguments.
C24_FrameWithinMax ==
  \A c \in Clients :
    /\ \A i \in 1..Len(c2s[c]) : FrameWithinMax(c2s[c][i])
    /\ \A i \in 1..Len(s2c[c]) : FrameWithinMax(s2c[c][i])

\* C26: whenever the supervisor handles a well-formed CMDREQ and fork fails,
\* it sends CMDREQACK{cmdid, -1} to the requesting client if that client can
\* be written to, the command table is as before, none of the descriptors
\* received with the request is still open in the supervisor, and the
\* supervisor is back in its loop with every client still registered.
C26_ForkFailureAckedAndServing ==
  [][(/\ LoopEnded /\ rx.side = "server" /\ rx.msg.type = VNODE_MSG_CMDREQ
      /\ rx.tmp = 0 /\ running' = running)
     => /\ ServerSendOk(rx.c) =>
             /\ s2c'[rx.c] =
                  Append(s2c[rx.c], Msg("CMDREQACK", rx.data.cmdid, 0 - 1))
             /\ [to |-> rx.c, cmdid |-> rx.data.cmdid, pid |-> 0 - 1] \in ackSent'
        /\ cmdlisthead' = cmdlisthead
        /\ OpenFds(rx.fds) \cap srvfds' = {}
        /\ spc' = "loop" /\ rx' = NoRx
        /\ clientlisthead' = clientlisthead /\ sclosed' = sclosed]_vars

\* C26 witness: a client's first request was answered with pid -1, its next
\* request was forked and acknowledged, and no received descriptor is open.
C26_Witness ==
  \E c \in Clients, p \in PidSet :
    /\ [to |-> c, cmdid |-> 0, pid |-> 0 - 1] \in ackSent
    /\ [to |-> c, cmdid |-> 1, pid |-> p] \in ackSent
    /\ \E i \in 1..Len(cmdlisthead) : cmdlisthead[i].pid = p
    /\ \E k \in 1..Len(spawned) :
         spawned[k].pid = p /\ spawned[k].stdio[0].of = "client"
    /\ srvfds = {} /\ rx = NoRx /\ spc = "loop"

\* a child the supervisor forked and has not reaped, with no entry in the
\* command table
Unlisted(p) ==
  /\ p \in running \cup {z.pid : z \in zombies}
  /\ CmdByPid(p) = 0

\* C27: a step in which the supervisor forks for a CMDREQ of a client it
\* cannot write to adds no entry to the command table and makes no kill call;
\* and as long as such a child is not reaped, no entry with its pid appears
\* and no kill call names it, so that the step that reaps it leaves the
\* command table as it is and sends nothing.
C27_UnackedChildUnlisted ==
  [][/\ \A c \in Clients :
          (/\ spc = "loop" /\ c \in LiveFds /\ c2s[c] # <<>>
           /\ c2s'[c] = Tail(c2s[c]) /\ running' # running
           /\ ~ServerSendOk(c))
          => /\ cmdlisthead' = cmdlisthead
             /\ kills' = kills
             /\ ackSent' = ackSent /\ s2c' = s2c
             /\ \A p \in running' \ running : Unlisted(p)'
      /\ \A p \in PidSet :
          (spc = "loop" /\ spc' = "loop" /\ Unlisted(p))
          => /\ \A k \in kills' \ kills : k.pid # p
             /\ p \in running' \cup {z.pid : z \in zombies'} => Unlisted(p)'
             /\ (\E z \in zombies \ zombies' : z.pid = p)
                  => /\ cmdlisthead' = cmdlisthead
                     /\ s2c' = s2c
                     /\ statusSent' = statusSent]_vars

\* C27 witness: a child whose acknowledgement could not be sent has ended
\* and waits for the reap with no entry in the command table; no
\* acknowledgement and no status was ever sent and no kill call was made.
C27_Witness ==
  /\ spc = "loop"
  /\ \E z \in zombies : Unlisted(z.pid)
  /\ ackSent = {} /\ statusSent = {} /\ kills = {}
  /\ cmdlisthead = <<>>

\* C28: a vnode_client_cmdreq call whose sendmsg fails returns -1 and leaves
\* the client's in-flight table and the completions as they were; and at no
\* time is a call that returned -1 in the in-flight table or completed by
\* on_done, whatever happens to the client afterwards.
C28_FailedSendLeavesNoTrace ==
  /\ [](\A c \in Clients : \A r \in 1..Len(ret[c]) :
         ret[c][r] = 0 - 1 =>
           /\ DoneCount(c, r) = 0
           /\ \A i \in 1..Len(ccmdlist[c]) : ccmdlist[c][i].req # r)
  /\ [][\A c \in Clients :
         (Len(ret'[c]) = Len(ret[c]) + 1 /\ ~ClientSendOk(c))
         => /\ ret'[c][Len(ret'[c])] = 0 - 1
            /\ ccmdlist' = ccmdlist
            /\ done' = done
            /\ c2s' = c2s]_vars

\* C28 witness: a client's second call failed at the send, and the client
\* was closed afterwards: its first call was completed, the failed one is not.
C28_Witness ==
  \E c \in Clients :
    /\ Len(ret[c]) = 2 /\ ret[c][1] = 0 /\ ret[c][2] = 0 - 1
    /\ cstate[c] = "closed"
    /\ DoneCount(c, 1) = 1 /\ DoneCount(c, 2) = 0

\* C29: for every command that on_done completed with a status received in
\* a CMDSTATUS, the pid on_done was given is the pid of the CMDREQACK sent to
\* that client for that cmdid, and neither the client's in-flight table nor
\* the supervisor's command table holds an entry of that client's command.
C29_StatusCompletion ==
  \A c \in Clients : \A i \in 1..Len(done[c]) :
    done[c][i].status >= 0 =>
      /\ [to |-> c, cmdid |-> done[c][i].cmdid, pid |-> done[c][i].pid] \in ackSent
      /\ \A k \in 1..Len(ccmdlist[c]) : ccmdlist[c][k].cmdid # done[c][i].cmdid
      /\ \A k \in 1..Len(cmdlisthead) :
           ~(cmdlisthead[k].conn = c /\ cmdlisthead[k].cmdid = done[c][i].cmdid)

\* the entries of c's in-flight table that belong to its r-th call
EntriesOf(c, r) == {i \in 1..Len(ccmdlist[c]) : ccmdlist[c][i].req = r}

\* the in-flight table of every client holds one entry for each call that
\* returned a cmdid and is not completed, none for any other call, and no
\* two entries with the same cmdid
OneEntryPerOutstanding ==
  \A c \in Clients :
    /\ \A r \in 1..Len(ret[c]) :
         Cardinality(EntriesOf(c, r)) =
           IF ret[c][r] >= 0 /\ DoneCount(c, r) = 0 THEN 1 ELSE 0
    /\ \A i \in 1..Len(ccmdlist[c]) : ccmdlist[c][i].req \in 1..Len(ret[c])
    /\ \A i, j \in 1..Len(ccmdlist[c]) :
         i # j => ccmdlist[c][i].cmdid # ccmdlist[c][j].cmdid

\* the cmdids a client's successful calls returned start at 0 and increase
ReturnedIdsFromZero ==
  \A c \in Clients :
    /\ \A r \in 1..Len(ret[c]) :
         (ret[c][r] >= 0 /\ \A q \in 1..(r - 1) : ret[c][q] < 0) => ret[c][r] = 0
    /\ \A q, r \in 1..Len(ret[c]) :
         (q < r /\ ret[c][q] >= 0 /\ ret[c][r] >= 0) => ret[c][q] < ret[c][r]

C31_CmdidWrapsToZero ==
  \A c \in Clients :
    /\ \A r \in 1..Len(ret[c]) :
         ret[c][r] \in {0 - 1, IF r = 1 THEN INT32_MAX ELSE r - 2}
    /\ \A i \in 1..Len(ccmdlist[c]) : ccmdlist[c][i].cmdid >= 0
    /\ \A k \in 1..Len(c2s[c]) : c2s[c][k].cmdid >= 0

\* C31 witness: a client's call returned INT32_MAX and its next call 0
C31_Witness == \E c \in Clients : ret[c] = <<INT32_MAX, 0>>

\* the bytes recvmsg() stored for a datagram: what the buffer holds of it
RecvLen(d) == IF d.len > VNODE_MSGSIZMAX THEN VNODE_MSGSIZMAX ELSE d.len

\* recvmsg() returned 0, or failed with an errno that is not EAGAIN
RecvStops(r) ==
  \/ r.kind = "closed"
  \/ r.kind = "data" /\ RecvLen(r.d) = 0
  \/ r.kind = "errno" /\ r.errno # "EAGAIN"

\* recvmsg() failed with EAGAIN, or read a datagram shorter than the header,
\* of type NONE or >= MAX, or whose datalen is not the length less 8
RecvIgnored(r) ==
  \/ r.kind = "errno" /\ r.errno = "EAGAIN"
  \/ /\ r.kind = "data" /\ RecvLen(r.d) > 0
     /\ \/ RecvLen(r.d) < 8
        \/ r.d.type = VNODE_MSG_NONE \/ r.d.type >= VNODE_MSG_MAX
        \/ r.d.datalen # RecvLen(r.d) - 8

\* C32: a vnode_recvmsg call returns a negative value exactly when recvmsg
\* returned 0 or failed with an errno other than EAGAIN, returns 0 exactly
\* when recvmsg failed with EAGAIN or the datagram is shorter than the header,
\* of type NONE or >= MAX, or of a datalen that is not the received length
\* less 8, and returns the received length, which is positive, otherwise.
C32_RecvmsgReturn ==
  rx.pc = "recvd" =>
    /\ rx.ret < 0 <=> RecvStops(rx.r)
    /\ rx.ret = 0 <=> RecvIgnored(rx.r)
    /\ (~RecvStops(rx.r) /\ ~RecvIgnored(rx.r))
         => (rx.ret = RecvLen(rx.r.d) /\ rx.ret > 0)

\* C32 witness: a call returned the length of a datagram that was cut to the
\* buffer and whose header names what was left of it
C32_Witness ==
  /\ rx.pc = "recvd" /\ rx.r.kind = "data"
  /\ rx.r.d.len > VNODE_MSGSIZMAX /\ rx.ret = VNODE_MSGSIZMAX

\* C33: a step of vnode_parsemsg at a well-sized TLV whose type has no handler
\* in the table, or lies past the table, only moves on to the next TLV: the
\* parsed members and the result are as before and both programs keep
\* running.
C33_UnhandledTlvSkipped ==
  [][(/\ rx.pc = "parse" /\ ~rx.brk /\ rx.offset < rx.msg.datalen
      /\ rx.msg.tlvs[rx.i].vallen # 0
      /\ rx.offset + TlvHdrLen + rx.msg.tlvs[rx.i].vallen <= rx.msg.datalen
      /\ \/ rx.msg.tlvs[rx.i].type >= VNODE_TLV_MAX
         \/ tlvhandler(rx.msg.type, rx.msg.tlvs[rx.i].type) = "NULL")
     => /\ rx' = [rx EXCEPT !.offset = @ + TlvHdrLen + rx.msg.tlvs[rx.i].vallen,
                            !.i = @ + 1]
        /\ spc' = spc
        /\ cstate' = cstate]_vars

\* C34: the signals cleanup() has sent are SIGTERM first and SIGKILL after it
\* at most; SIGKILL is sent only in a step taken with a child still there
\* and the delay of two seconds slept in full; a step that ends the loop
\* with no child left sends none; and a supervisor that is not pid 1 sends
\* no signal at all.
C34_KillOrder ==
  [][/\ reap'.sent \in {<<>>, <<SIGTERM>>, <<SIGTERM, SIGKILL>>}
     /\ Len(reap'.sent) >= Len(reap.sent)
     /\ (Len(reap'.sent) = 2 /\ Len(reap.sent) < 2)
          => /\ running # {} \/ zombies # {}
             /\ reap'.slept = CleanupDelay * TicksPerSec
     /\ (spc = "waitpid" /\ spc' = "exited") => reap'.sent = <<SIGTERM>>
     /\ ~args.newnetns => reap'.sent = <<>>]_vars

\* C34 witness: a pid 1 supervisor has ended after SIGTERM and SIGKILL, its
\* sleep having been interrupted on the way
C34_Witness ==
  /\ spc = "exited" /\ args.newnetns
  /\ reap.sent = <<SIGTERM, SIGKILL>>
  /\ reap.delay < CleanupDelay * TicksPerSec

\* C35: a pid 1 supervisor in cleanup() leaves the wait loop in the end,
\* whatever children there are and however often SIGCHLD interrupts the
\* sleep, and when it has left it, no child was left or SIGKILL was sent.
C35_KillLoopEnds ==
  /\ <>(spc = "exited")
  /\ [](spc = "exited" /\ args.newnetns
        => ((running = {} /\ zombies = {}) \/ reap.sent = <<SIGTERM, SIGKILL>>))

\* C35 witness: the loop was left with SIGKILL sent after the sleep had been
\* interrupted three times
C35_Witness ==
  /\ spc = "exited" /\ args.newnetns
  /\ reap.delay = 1 /\ reap.sent = <<SIGTERM, SIGKILL>>
  /\ running # {}

\* the entries of the command table for the command that came in on
\* connection c with cmdid id
OwnEntries(c, id) ==
  {i \in 1..Len(cmdlisthead) : cmdlisthead[i].conn = c /\ cmdlisthead[i].cmdid = id}

\* C36: when the supervisor handles a CMDSIGNAL of a connection for a cmdid
\* whose command it forked, acknowledged and has not reaped yet, the kill()
\* it makes goes to the pid of that command's child.
C36_SignalReachesOwnChild ==
  [][\A c \in Clients :
       (/\ c2s[c] # <<>>
        /\ Head(c2s[c]).type = "CMDSIGNAL"
        /\ ServerRecvMsg(c)
        /\ OwnEntries(c, Head(c2s[c]).cmdid) # {})
       => \E i \in OwnEntries(c, Head(c2s[c]).cmdid) :
            /\ [to |-> c, cmdid |-> cmdlisthead[i].cmdid, pid |-> cmdlisthead[i].pid]
                 \in ackSent
            /\ [from |-> c, owner |-> c, pid |-> cmdlisthead[i].pid] \in kills']_vars

\* C37: whenever the supervisor is between two datagrams, it holds no
\* descriptor that it received in an SCM_RIGHTS control message.
C37_ReceivedFdsClosed == (spc = "loop" /\ rx = NoRx) => srvfds = {}

\* C38: every entry of the supervisor's command table has a pid greater
\* than 0, and so has every kill() made for a CMDSIGNAL.
C38_EntryPidPositive ==
  /\ \A i \in 1..Len(cmdlisthead) : cmdlisthead[i].pid > 0
  /\ \A k \in kills : k.pid > 0

\* C38 witness: a fork has failed and was acknowledged with pid -1, and a
\* CMDSIGNAL has been answered with a kill() of an entry's pid
C38_Witness ==
  /\ \E a \in ackSent : a.pid = 0 - 1
  /\ \E k \in kills : \E i \in 1..Len(cmdlisthead) : cmdlisthead[i].pid = k.pid

\* whether x is an element of the sequence s
InSeq(x, s) == \E i \in 1..Len(s) : s[i] = x

\* C39: the requests run are the requests queued, in the order queued and
\* each once; a request is run in the loop thread's callback; a caller that
\* has left call_asyncfunc had its request run; and every request queued is
\* run and its caller released in the end.
C39_AsyncRequests ==
  /\ [](/\ Len(thhist.run) <= Len(thhist.enq)
        /\ \A i \in 1..Len(thhist.run) : thhist.run[i] = thhist.enq[i]
        /\ \A i, j \in 1..Len(thhist.run) : thhist.run[i] = thhist.run[j] => i = j
        /\ \A i \in 1..Len(thhist.released) : InSeq(thhist.released[i], thhist.run))
  /\ [][thhist'.run # thhist.run
          => tpc[LoopThread] = "cb_run" /\ tpc'[LoopThread] = "cb_lockreq"]_vars
  /\ \A id \in 1..MaxThreadCalls :
       InSeq(id, thhist.enq) ~> InSeq(id, thhist.released)

\* C39 witness: two requests were run in one call of the callback, the
\* second queued after the pipe had been emptied, and both callers have
\* been released while the second caller's byte is still in the pipe
C39_Witness ==
  /\ Len(thhist.run) = 2
  /\ InSeq(1, thhist.released) /\ InSeq(2, thhist.released)
  /\ asyncpipe = 1 /\ tpc[LoopThread] = "ev_loop"

\* the lock a thread is about to take
WantsGil(t) == tpc[t] \in {"call_end", "wait_end", "done_ensure", "ioerror_ensure"}
WantsMutex(t) ==
  CASE tpc[t] \in {"call_locklist", "cb_locklist"} -> {asyncreqlist_mutex}
    [] tpc[t] = "call_lockpipe" -> {asyncpipe_writemutex}
    [] tpc[t] = "call_lockreq" -> {asyncreq_mutex(t)}
    [] tpc[t] = "call_condwait" /\ asyncreq[t].done -> {asyncreq_mutex(t)}
    [] tpc[t] = "cb_lockreq" -> {asyncreq_mutex(thop[t])}
    [] tpc[t] = "wait_lock" -> {cmdwait_mutex(thop[t])}
    [] tpc[t] = "wait_condwait" /\ cmdwait[thop[t]].complete -> {cmdwait_mutex(thop[t])}
    [] tpc[t] = "done_lock" -> {cmdwait_mutex(thop[t])}
    [] OTHER -> {}

\* the threads that hold what t is about to take
BlockedBy(t) ==
  (IF WantsGil(t) THEN {gil} ELSE {mutex[m] : m \in WantsMutex(t)}) \ {NoThread, t}

\* C40: there is no set of threads each of which is about to take a lock
\* that a thread of the set holds.
C40_NoDeadlock ==
  \A S \in SUBSET Threads :
    S # {} => \E t \in S : BlockedBy(t) \cap S = {}

\* C25: a step of the running supervisor that deletes client c leaves the
\* command table as it was, entries of c included, kills nothing and ends no
\* child, and removes from the client list the entry of c and no other.
C25_DelclientFrame ==
  [][\A c \in Clients :
       (c \in LiveFds /\ c \notin LiveFds' /\ spc' = "loop")
       => /\ cmdlisthead' = cmdlisthead
          /\ kills' = kills
          /\ running' = running
          /\ clientlisthead' = SelectSeq(clientlisthead, LAMBDA e : e.fd # c)
          /\ sclosed' = sclosed \cup {c}]_vars

\* C25 witness: a client has been deleted while the supervisor runs on; its
\* command is still in the table, its child alive, another client connected
C25_Witness ==
  /\ spc = "loop"
  /\ LiveFds # {}
  /\ \E i \in 1..Len(cmdlisthead) :
       /\ cmdlisthead[i].conn \in sclosed
       /\ cmdlisthead[i].conn \notin LiveFds
       /\ cmdlisthead[i].pid \in running

=============================================================================
